---- MODULE Spec2Model ----
(***************************************************************************)
(* Model of the UPSC exam-preparation backend: its request handlers, the   *)
(* rows they read and write through the ORM, and the delayed evaluation    *)
(* callback.  Every `await prisma...` of a handler is one atomic step of   *)
(* the request that runs it; requests interleave between steps.            *)
(*                                                                         *)
(* Conventions: a missing row / null date / null id is 0, a null string is *)
(* "null"; scores and accuracies are kept in tenths (17 means 1.7).        *)
(***************************************************************************)
EXTENDS Integers, Sequences, FiniteSets, TLC

VARIABLES
    day,            \* the current calendar day (what getToday() returns)
    clock,          \* the timestamps handed out so far by new Date()
    req,            \* the requests: position in the handler and its locals
    mcqAttempts,    \* MCQAttempt rows
    mcqResponses,   \* MCQResponse rows
    userActivity,   \* UserActivity rows, counted per <<userId, type>>
    userStreak,     \* UserStreak rows
    activeDays,     \* history: per user, the days updateStreak completed on
    mainsAttempts,  \* MainsAttempt rows
    mainsEvals,     \* MainsEvaluation rows
    timers,         \* the setTimeout callbacks that have not run yet
    reported,       \* history: per attempt, the last and the furthest status that
                    \* getEvaluationStatus reported
    resubmitted,    \* history: attempts submitted again since that report
    lost,           \* history: evaluations whose callback failed or was dropped
    mockTests,      \* MockTest rows with their MockTestQuestion rows
    mockAttempts,   \* MockTestAttempt rows
    users,          \* User rows
    provider,       \* identity provider: the accounts that exist
    tokens,         \* identity provider: the accounts holding a valid access token
    handled,        \* history: the requests whose protected handler ran
    session,        \* the account whose session the server's provider client holds
    studyPlanTasks, \* StudyPlanTask rows
    studyStreak,    \* StudyStreak rows
    weeklyGoals,    \* WeeklyGoal rows
    studyDays       \* history: per user, the days updateStudyStreak was called on

mcqVars == <<mcqAttempts, mcqResponses, userActivity, userStreak>>
mainsVars == <<mainsAttempts, mainsEvals, timers, reported, resubmitted, lost>>
timeVars == <<day, clock>>
testVars == <<mockTests, mockAttempts>>
authVars == <<users, provider, tokens, handled, session>>
planVars == <<studyPlanTasks, studyStreak, weeklyGoals, studyDays>>
vars == <<day, clock, req, mcqAttempts, mcqResponses, userActivity, userStreak, activeDays,
          mainsAttempts, mainsEvals, timers, reported, resubmitted, lost,
          mockTests, mockAttempts, users, provider, tokens, handled, session,
          studyPlanTasks, studyStreak, weeklyGoals, studyDays>>

----------------------------------------------------------------------------
(* Bounds and data of the model *)

NumUsers == 2           \* User rows present in the store
MaxDay == 4             \* days the clock runs through
NoDailyDay == 3         \* the day that has no DailyMCQ and no DailyMainsQuestion row
MaxReq == 2             \* submissions served in one behaviour
NumQuestions == 2       \* questions of a daily MCQ
MainsMarks == 4         \* DailyMainsQuestion.marks
McqTotalMarks == 5      \* DailyMCQ.totalMarks
MaxAnswers == 2         \* length of the answers array of a request body
NewAccounts == 1        \* provider accounts that have no User row at the start
MaxTests == 1           \* mock tests generated in one behaviour
MaxTestQuestions == 2   \* questionCount asked of generateTest
MaxTasks == 2           \* study plan tasks created in one behaviour
FirstMonday == 3        \* the first day that is a Monday

Max(a, b) == IF a >= b THEN a ELSE b
Min(a, b) == IF a <= b THEN a ELSE b

UserIds == 1..NumUsers
Days == 1..MaxDay
Reqs == 1..MaxReq
QuestionIds == 1..NumQuestions
Options == {"A", "B"}
ActivityTypes == {"mcq", "answer", "mock_test"}
AttemptIds == 1..MaxReq

NoRow == [id |-> 0]

(* a User row; the e-mail address of an account is written as the account's *)
(* number, in lower case unless caps is set                                 *)
UserRow(id, account) ==
    [id |-> id, supabaseId |-> account, email |-> [name |-> account, caps |-> FALSE]]

(* Math.round(x * 10) for x = num / den >= 0 or < 0: floor(10x + 1/2) *)
RoundTenths(num, den) == (20 * num + den) \div (2 * den)

----------------------------------------------------------------------------
(* The store *)

(* DailyMCQ rows: one per date, found by findUnique({ where: { date } }) *)
DailyMcq(d) == [id |-> d, date |-> d, questionCount |-> NumQuestions,
                totalMarks |-> McqTotalMarks]

(* the dates that have a DailyMCQ row: every day but one *)
DailyMcqDates == Days \ {NoDailyDay}

FindDailyMcq(d) == IF d \in DailyMcqDates THEN DailyMcq(d) ELSE NoRow

(* MCQQuestion.correctOption of question q *)
CorrectOption(q) == IF q % 2 = 1 THEN "A" ELSE "B"

FindAttempt(u, m) ==
    IF \E a \in mcqAttempts : a.userId = u /\ a.dailyMcqId = m
    THEN CHOOSE a \in mcqAttempts : a.userId = u /\ a.dailyMcqId = m
    ELSE NoRow

FindStreak(u) ==
    IF \E s \in userStreak : s.userId = u
    THEN CHOOSE s \in userStreak : s.userId = u
    ELSE NoRow

NewId(table) == Cardinality(table) + 1

----------------------------------------------------------------------------
(* Requests *)

Idle == [kind |-> "none", pc |-> "idle", user |-> 0, item |-> 0, resp |-> 0]

Done(r, code) == [kind |-> req[r].kind, pc |-> "done", user |-> req[r].user,
                  item |-> req[r].item, resp |-> code]

InFlight == {r \in Reqs : req[r].pc \notin {"idle", "done"}}

(* request slots are taken in order; conc tells whether a request may     *)
(* arrive while another is still being served                             *)
CanStart(r, conc) ==
    /\ req[r].pc = "idle"
    /\ \A q \in Reqs : q < r => req[q].pc # "idle"
    /\ conc \/ InFlight = {}

(* whether a store call succeeds: it may throw only where faults are modelled *)
Outcomes(faults) == IF faults THEN BOOLEAN ELSE {TRUE}

----------------------------------------------------------------------------
(* submitMCQ: grading *)

AnswerItems == [questionId : 1..(NumQuestions + 1), selectedOption : Options \cup {""}]

AnswerArrays == UNION {[1..n -> AnswerItems] : n \in 0..MaxAnswers}

(* answers?.find(a => a.questionId === q.id)?.selectedOption || null *)
Selected(answers, q) ==
    LET hits == {i \in 1..Len(answers) : answers[i].questionId = q}
    IN  IF hits = {} THEN "null"
        ELSE LET first == CHOOSE i \in hits : \A j \in hits : i <= j
             IN  IF answers[first].selectedOption = "" THEN "null"
                 ELSE answers[first].selectedOption

IsCorrect(sel, q) ==
    IF sel = "null" THEN "null" ELSE IF sel = CorrectOption(q) THEN "true" ELSE "false"

ResponseData(answers) ==
    [q \in QuestionIds |->
        [selectedOption |-> Selected(answers, q),
         isCorrect |-> IsCorrect(Selected(answers, q), q)]]

CountOf(rd, v) == Cardinality({q \in QuestionIds : rd[q].isCorrect = v})

McqScore_Penalised(correct, wrong, mcq) ==
    Max(0, RoundTenths(3 * correct * mcq.totalMarks - wrong * mcq.totalMarks,
                       3 * mcq.questionCount))

(* Math.round(correctCount * (totalMarks / questionCount) * 10) / 10 *)
McqScore(correct, wrong, mcq) == RoundTenths(correct * mcq.totalMarks, mcq.questionCount)

Accuracy(correct, wrong) ==
    IF correct + wrong > 0 THEN RoundTenths(100 * correct, correct + wrong) ELSE 0

Grade(answers, mcq) ==
    LET rd == ResponseData(answers)
        c == CountOf(rd, "true")
        w == CountOf(rd, "false")
        s == CountOf(rd, "null")
    IN  [responseData |-> rd, correctCount |-> c, wrongCount |-> w, skippedCount |-> s,
         score |-> McqScore(c, w, mcq), accuracy |-> Accuracy(c, w)]

AlreadySubmitted_Never(existing) == FALSE

(* if (existing?.completedAt) *)
AlreadySubmitted(existing) == existing.id # 0 /\ existing.completedAt # 0

----------------------------------------------------------------------------
(* submitMCQ: the handler, one action per store call *)

(* getToday(); prisma.dailyMCQ.findUnique; 404 when there is none *)
McqFind(r, conc) ==
    /\ CanStart(r, conc)
    /\ \E u \in UserIds :
         LET mcq == FindDailyMcq(day)
         IN  req' = [req EXCEPT ![r] =
                 IF mcq.id = 0
                 THEN [kind |-> "submitMCQ", pc |-> "done", user |-> u, item |-> 0, resp |-> 404]
                 ELSE [kind |-> "submitMCQ", pc |-> "check", user |-> u, item |-> mcq.id,
                       resp |-> 0]]
    /\ UNCHANGED <<planVars, testVars, authVars, mainsVars, timeVars, mcqVars, activeDays>>

(* prisma.mCQAttempt.findUnique; 400 when completed; else grade the answers *)
McqCheck(r) ==
    /\ req[r].pc = "check"
    /\ LET existing == FindAttempt(req[r].user, req[r].item)
       IN  IF AlreadySubmitted(existing)
           THEN req' = [req EXCEPT ![r] = Done(r, 400)]
           ELSE \E answers \in AnswerArrays :
                  req' = [req EXCEPT ![r] =
                      [kind |-> "submitMCQ", pc |-> "upsert", user |-> req[r].user,
                       item |-> req[r].item, resp |-> 0,
                       res |-> Grade(answers, FindDailyMcq(req[r].item))]]
    /\ UNCHANGED <<planVars, testVars, authVars, mainsVars, timeVars, mcqVars, activeDays>>

AttemptRow(id, r) ==
    [id |-> id, userId |-> req[r].user, dailyMcqId |-> req[r].item,
     score |-> req[r].res.score, correctCount |-> req[r].res.correctCount,
     wrongCount |-> req[r].res.wrongCount, skippedCount |-> req[r].res.skippedCount,
     accuracy |-> req[r].res.accuracy, completedAt |-> clock + 1]

(* prisma.mCQAttempt.upsert on the unique key (userId, dailyMcqId) *)
McqUpsert(r, faults) ==
    /\ req[r].pc = "upsert"
    /\ \E ok \in Outcomes(faults) :
         IF ~ok
         THEN /\ req' = [req EXCEPT ![r] = Done(r, 500)]
              /\ UNCHANGED <<mcqAttempts, clock>>
         ELSE LET existing == FindAttempt(req[r].user, req[r].item)
                  id == IF existing.id = 0 THEN NewId(mcqAttempts) ELSE existing.id
              IN  /\ mcqAttempts' = (mcqAttempts \ {existing}) \cup {AttemptRow(id, r)}
                  /\ clock' = clock + 1
                  /\ req' = [req EXCEPT ![r] =
                         [kind |-> "submitMCQ", pc |-> "responses", user |-> req[r].user,
                          item |-> req[r].item, resp |-> 0, res |-> req[r].res,
                          att |-> id, i |-> 1]]
    /\ UNCHANGED <<planVars, testVars, authVars, mainsVars, day, mcqResponses, userActivity, userStreak, activeDays>>

(* for (const r of responseData) prisma.mCQResponse.upsert on (attemptId, questionId) *)
McqResponse(r, faults) ==
    /\ req[r].pc = "responses"
    /\ \E ok \in Outcomes(faults) :
         IF ~ok
         THEN /\ req' = [req EXCEPT ![r] = Done(r, 500)]
              /\ UNCHANGED mcqResponses
         ELSE LET q == req[r].i
                  old == {x \in mcqResponses : x.attemptId = req[r].att /\ x.questionId = q}
                  row == [attemptId |-> req[r].att, questionId |-> q,
                          selectedOption |-> req[r].res.responseData[q].selectedOption,
                          isCorrect |-> req[r].res.responseData[q].isCorrect]
              IN  /\ mcqResponses' = (mcqResponses \ old) \cup {row}
                  /\ req' = [req EXCEPT ![r].i = q + 1,
                                        ![r].pc = IF q = NumQuestions THEN "activity"
                                                  ELSE "responses"]
    /\ UNCHANGED <<planVars, testVars, authVars, mainsVars, timeVars, mcqAttempts, userActivity, userStreak, activeDays>>

LogActivity(u, type) ==
    [userActivity EXCEPT ![<<u, type>>] = @ + 1]

(* prisma.userActivity.create({ type: "mcq" }) *)
McqActivity(r, faults) ==
    /\ req[r].pc = "activity"
    /\ \E ok \in Outcomes(faults) :
         IF ~ok
         THEN /\ req' = [req EXCEPT ![r] = Done(r, 500)]
              /\ UNCHANGED userActivity
         ELSE /\ userActivity' = LogActivity(req[r].user, "mcq")
              /\ req' = [req EXCEPT ![r] =
                     [kind |-> "submitMCQ", pc |-> "streakRead", user |-> req[r].user,
                      item |-> req[r].item, resp |-> 0]]
    /\ UNCHANGED <<planVars, testVars, authVars, mainsVars, timeVars, mcqAttempts, mcqResponses, userStreak, activeDays>>

----------------------------------------------------------------------------
(* updateStreak *)

NewStreak_Always(streak, today) == streak.currentStreak + 1

(* isConsecutive ? streak.currentStreak + 1 : 1 *)
NewStreak(streak, today) ==
    IF streak.lastActiveDate # 0 /\ streak.lastActiveDate = today - 1
    THEN streak.currentStreak + 1
    ELSE 1

NewLongest_Current(streak, today) == NewStreak(streak, today)

(* Math.max(newStreak, streak.longestStreak) *)
NewLongest(streak, today) == Max(NewStreak(streak, today), streak.longestStreak)

(* today; prisma.userStreak.findUnique; the isToday early return *)
StreakRead(r) ==
    /\ req[r].pc = "streakRead"
    /\ LET streak == FindStreak(req[r].user)
       IN  IF streak.id # 0 /\ streak.lastActiveDate # 0 /\ streak.lastActiveDate = day
           THEN /\ req' = [req EXCEPT ![r] = Done(r, 200)]
                /\ activeDays' = [activeDays EXCEPT ![req[r].user] = @ \cup {day}]
           ELSE /\ req' = [req EXCEPT ![r] =
                       [kind |-> req[r].kind, pc |-> "streakWrite", user |-> req[r].user,
                        item |-> req[r].item, resp |-> 0,
                        create |-> (streak.id = 0), today |-> day,
                        newStreak |-> IF streak.id = 0 THEN 1 ELSE NewStreak(streak, day),
                        newLongest |-> IF streak.id = 0 THEN 1
                                       ELSE NewLongest(streak, day)]]
                /\ UNCHANGED activeDays
    /\ UNCHANGED <<planVars, testVars, authVars, mainsVars, timeVars, mcqVars>>

(* prisma.userStreak.create (unique on userId) or prisma.userStreak.update,    *)
(* then the success response of submitMCQ                                     *)
StreakWrite(r, faults) ==
    /\ req[r].pc = "streakWrite"
    /\ \E ok \in Outcomes(faults) :
         LET old == FindStreak(req[r].user)
             row == [id |-> IF old.id = 0 THEN NewId(userStreak) ELSE old.id,
                     userId |-> req[r].user, currentStreak |-> req[r].newStreak,
                     longestStreak |-> req[r].newLongest, lastActiveDate |-> req[r].today]
         IN  IF ~ok \/ (req[r].create /\ old.id # 0)
             THEN /\ req' = [req EXCEPT ![r] = Done(r, 500)]
                  /\ UNCHANGED <<userStreak, activeDays>>
             ELSE /\ userStreak' = (userStreak \ {old}) \cup {row}
                  /\ activeDays' = [activeDays EXCEPT ![req[r].user] = @ \cup {req[r].today}]
                  /\ req' = [req EXCEPT ![r] = Done(r, 200)]
    /\ UNCHANGED <<planVars, testVars, authVars, mainsVars, timeVars, mcqAttempts, mcqResponses, userActivity>>

----------------------------------------------------------------------------
(* getStreak (GET /api/user/streak): creates a 0/0 row when none exists *)

GetStreak ==
    /\ InFlight = {}
    /\ \E u \in UserIds :
         LET old == FindStreak(u)
         IN  /\ old.id = 0
             /\ userStreak' = userStreak \cup
                    {[id |-> NewId(userStreak), userId |-> u, currentStreak |-> 0,
                      longestStreak |-> 0, lastActiveDate |-> 0]}
    /\ UNCHANGED <<planVars, testVars, authVars, mainsVars, timeVars, req, mcqAttempts, mcqResponses, userActivity, activeDays>>

(* updateStreak(userId) as one call, none other running: create 1/1, return *)
(* when already recorded today, else update                                *)
UpdateStreak(u) ==
    /\ InFlight = {}
    /\ LET streak == FindStreak(u)
           row == IF streak.id = 0
                  THEN [id |-> NewId(userStreak), userId |-> u, currentStreak |-> 1,
                        longestStreak |-> 1, lastActiveDate |-> day]
                  ELSE [streak EXCEPT !.currentStreak = NewStreak(streak, day),
                                      !.longestStreak = NewLongest(streak, day),
                                      !.lastActiveDate = day]
       IN  userStreak' = IF streak.id # 0 /\ streak.lastActiveDate = day
                         THEN userStreak
                         ELSE (userStreak \ {streak}) \cup {row}
    /\ activeDays' = [activeDays EXCEPT ![u] = @ \cup {day}]
    /\ UNCHANGED <<planVars, testVars, authVars, mainsVars, timeVars, req, mcqAttempts, mcqResponses, userActivity>>

(* midnight passes *)
Tick ==
    /\ day < MaxDay
    /\ day' = day + 1
    /\ UNCHANGED <<planVars, testVars, authVars, mainsVars, clock, req, mcqVars, activeDays>>

----------------------------------------------------------------------------
(* Daily answer writing: submitTextAnswer, uploadAnswer, startEvaluation *)

(* request bodies: answerText as a string of characters, "null" when absent *)
AnswerTexts == {<<>>, <<" ">>, <<"a">>, <<"a", " ", "b">>}
FileUrls == {"url"}

RECURSIVE TrimStart(_)
TrimStart(t) == IF t # <<>> /\ Head(t) = " " THEN TrimStart(Tail(t)) ELSE t

RECURSIVE TrimEnd(_)
TrimEnd(t) == IF t # <<>> /\ t[Len(t)] = " " THEN TrimEnd(SubSeq(t, 1, Len(t) - 1)) ELSE t

(* answerText.trim() *)
Trim(t) == TrimEnd(TrimStart(t))

(* answerText.trim().split(/\s+/).length, for a text that is not blank *)
WordCount(t) ==
    LET x == Trim(t)
    IN  1 + Cardinality({i \in 2..Len(x) : x[i] = " " /\ x[i - 1] # " "})

(* DailyMainsQuestion rows: one per date *)
FindMainsQuestion(d) ==
    IF d \in Days \ {NoDailyDay} THEN [id |-> d, date |-> d, marks |-> MainsMarks] ELSE NoRow

FindMainsAttempt_Missing(u, q) == NoRow

FindMainsAttempt(u, q) ==
    IF \E a \in mainsAttempts : a.userId = u /\ a.questionId = q
    THEN CHOOSE a \in mainsAttempts : a.userId = u /\ a.questionId = q
    ELSE NoRow

FindEvaluation(attemptId) ==
    IF \E e \in mainsEvals : e.attemptId = attemptId
    THEN CHOOSE e \in mainsEvals : e.attemptId = attemptId
    ELSE NoRow

(* the 400 for a blank answer, getToday(), prisma.dailyMainsQuestion.findUnique *)
SubmitTextFind(r, conc) ==
    /\ CanStart(r, conc)
    /\ \E u \in UserIds, text \in AnswerTexts :
         LET question == FindMainsQuestion(day)
             code == IF Trim(text) = <<>> THEN 400 ELSE IF question.id = 0 THEN 404 ELSE 0
         IN  req' = [req EXCEPT ![r] =
                 IF code # 0
                 THEN [kind |-> "submitText", pc |-> "done", user |-> u, item |-> 0,
                       resp |-> code]
                 ELSE [kind |-> "submitText", pc |-> "mainsUpsert", user |-> u,
                       item |-> question.id, resp |-> 0, text |-> text]]
    /\ UNCHANGED <<planVars, testVars, authVars, mainsVars, timeVars, mcqVars, activeDays>>

(* getToday(), prisma.dailyMainsQuestion.findUnique of uploadAnswer *)
UploadFind(r, conc) ==
    /\ CanStart(r, conc)
    /\ \E u \in UserIds, fileUrl \in FileUrls :
         LET question == FindMainsQuestion(day)
         IN  req' = [req EXCEPT ![r] =
                 IF question.id = 0
                 THEN [kind |-> "upload", pc |-> "done", user |-> u, item |-> 0, resp |-> 404]
                 ELSE [kind |-> "upload", pc |-> "mainsUpsert", user |-> u,
                       item |-> question.id, resp |-> 0, text |-> fileUrl]]
    /\ UNCHANGED <<planVars, testVars, authVars, mainsVars, timeVars, mcqVars, activeDays>>

(* prisma.mainsAttempt.upsert on (userId, questionId):                        *)
(*   submitTextAnswer: update { answerText, wordCount, submittedAt }          *)
(*   uploadAnswer:     update { fileUrl, submittedAt }                        *)
MainsUpsert(r) ==
    /\ req[r].pc = "mainsUpsert"
    /\ LET existing == FindMainsAttempt(req[r].user, req[r].item)
           id == IF existing.id = 0 THEN NewId(mainsAttempts) ELSE existing.id
           isText == req[r].kind = "submitText"
           row == [id |-> id, userId |-> req[r].user, questionId |-> req[r].item,
                   answerText |-> IF isText THEN req[r].text
                                  ELSE IF existing.id = 0 THEN <<"null">>
                                  ELSE existing.answerText,
                   wordCount |-> IF isText THEN WordCount(req[r].text)
                                 ELSE IF existing.id = 0 THEN 0 ELSE existing.wordCount,
                   fileUrl |-> IF ~isText THEN req[r].text
                               ELSE IF existing.id = 0 THEN "null" ELSE existing.fileUrl,
                   submittedAt |-> clock + 1]
       IN  /\ mainsAttempts' = (mainsAttempts \ {existing}) \cup {row}
           /\ clock' = clock + 1
           /\ req' = [req EXCEPT ![r] =
                  [kind |-> req[r].kind, pc |-> "startEvaluation", user |-> req[r].user,
                   item |-> req[r].item, resp |-> 0, att |-> id, at |-> row.submittedAt,
                   text |-> IF isText THEN req[r].text ELSE <<"null">>]]
    /\ UNCHANGED <<planVars, testVars, authVars, day, mcqVars, activeDays, mainsEvals, timers, reported, resubmitted, lost>>

(* startEvaluation: prisma.mainsEvaluation.upsert on attemptId, then setTimeout; *)
(* history: the timer keeps the request and the submittedAt of its submission  *)
StartEvaluation(r) ==
    /\ req[r].pc = "startEvaluation"
    /\ LET existing == FindEvaluation(req[r].att)
           id == IF existing.id = 0 THEN NewId(mainsEvals) ELSE existing.id
           row == IF existing.id = 0
                  THEN [id |-> id, attemptId |-> req[r].att, score |-> 0,
                        maxScore |-> FindMainsQuestion(req[r].item).marks,
                        status |-> "evaluating"]
                  ELSE [existing EXCEPT !.status = "evaluating"]
       IN  /\ mainsEvals' = (mainsEvals \ {existing}) \cup {row}
           /\ timers' = timers \cup
                  {[evaluationId |-> id, answerText |-> req[r].text,
                    marks |-> FindMainsQuestion(req[r].item).marks, sub |-> r,
                    at |-> req[r].at]}
           /\ resubmitted' = [resubmitted EXCEPT ![req[r].att] = TRUE]
           /\ lost' = lost \ {id}
           /\ req' = [req EXCEPT ![r] =
                  [kind |-> req[r].kind, pc |-> "mainsActivity", user |-> req[r].user,
                   item |-> req[r].item, resp |-> 0]]
    /\ UNCHANGED <<planVars, testVars, authVars, timeVars, mcqVars, activeDays, mainsAttempts, reported>>

(* prisma.userActivity.create({ type: "answer" }), then the success response *)
MainsActivity(r) ==
    /\ req[r].pc = "mainsActivity"
    /\ userActivity' = LogActivity(req[r].user, "answer")
    /\ req' = [req EXCEPT ![r] = Done(r, 200)]
    /\ UNCHANGED <<planVars, testVars, authVars, mainsVars, timeVars, mcqAttempts, mcqResponses, userStreak, activeDays>>

(* Math.round(Math.random() * marks * 0.6 + marks * 0.3), Math.random() in [0, 1) *)
RandomMarks(marks) ==
    {k \in 0..marks : 10 * k + 5 > 3 * marks /\ 10 * k - 5 <= 9 * marks - 1}

(* the score of the callback in tenths: clamp to [3, marks], or marks * 0.5 for an upload *)
EvalScores(answerText, marks) ==
    IF answerText # <<"null">>
    THEN {10 * Min(marks, Max(3, k)) : k \in RandomMarks(marks)}
    ELSE {5 * marks}

CallbackUpdate_KeepsStatus(e, score) == [e EXCEPT !.score = score]

(* data: { score, status: "completed", ... } *)
CallbackUpdate(e, score) == [e EXCEPT !.score = score, !.status = "completed"]

(* the setTimeout callback: one prisma.mainsEvaluation.update, errors only logged *)
FireTimer(t) ==
    /\ t \in timers
    /\ timers' = timers \ {t}
    /\ \E ok \in BOOLEAN, score \in EvalScores(t.answerText, t.marks) :
         LET e == CHOOSE x \in mainsEvals : x.id = t.evaluationId
         IN  IF ok
             THEN /\ mainsEvals' = (mainsEvals \ {e}) \cup {CallbackUpdate(e, score)}
                  /\ UNCHANGED lost
             ELSE /\ lost' = lost \cup {t.evaluationId}
                  /\ UNCHANGED mainsEvals
    /\ UNCHANGED <<planVars, testVars, authVars, timeVars, req, mcqVars, activeDays, mainsAttempts, reported, resubmitted>>

(* the process stops and is started again: pending callbacks and the requests *)
(* being served are gone, the store is kept                                  *)
Restart ==
    /\ timers # {}
    /\ timers' = {}
    /\ lost' = lost \cup {t.evaluationId : t \in timers}
    /\ req' = [r \in Reqs |-> IF r \in InFlight THEN Done(r, 0) ELSE req[r]]
    /\ UNCHANGED <<planVars, testVars, authVars, timeVars, mcqVars, activeDays, mainsAttempts, mainsEvals, reported,
                   resubmitted>>

(* the order of the evaluation statuses *)
Rank(status) ==
    CASE status = "none" -> 0 [] status = "pending" -> 1
      [] status = "evaluating" -> 2 [] status = "completed" -> 3

EvaluationStatus_PendingUntilDone(ev) ==
    IF ev.id = 0 \/ ev.status # "completed" THEN "pending" ELSE ev.status

(* attempt.evaluation?.status || "pending" *)
EvaluationStatus(ev) == IF ev.id = 0 THEN "pending" ELSE ev.status

(* getEvaluationStatus: 404 without a question or an attempt, else the status *)
GetEvaluationStatus ==
    /\ \E u \in UserIds :
         LET question == FindMainsQuestion(day)
             attempt == FindMainsAttempt(u, question.id)
         IN  /\ question.id # 0
             /\ attempt.id # 0
             /\ reported' = [reported EXCEPT ![attempt.id] =
                    LET status == EvaluationStatus(FindEvaluation(attempt.id))
                    IN  [last |-> status,
                         best |-> IF Rank(status) > Rank(@.best) THEN status ELSE @.best]]
             /\ resubmitted' = [resubmitted EXCEPT ![attempt.id] = FALSE]
    /\ UNCHANGED <<planVars, testVars, authVars, timeVars, req, mcqVars, activeDays, mainsAttempts, mainsEvals, timers, lost>>

MainsStep(r) ==
    \/ MainsUpsert(r)
    \/ StartEvaluation(r)
    \/ MainsActivity(r)

----------------------------------------------------------------------------
(* Mock tests: generateTest, submitTest *)

DefaultQuestionCount == 10
MaxQuestionCount == 100
SubjectList == {"History", "Geography", "Indian Polity", "Economy"}
MockOptions == {"A", "B", "C", "D"}

(* Math.min(questionCount || 10, 100) *)
TestCount(questionCount) ==
    Min(IF questionCount = 0 THEN DefaultQuestionCount ELSE questionCount, MaxQuestionCount)

(* the questions generateTest may draw for a request that names subject *)
GeneratedQuestions(count, subject) ==
    [1..count -> [subject : IF subject \in {"null", "All Subjects"} THEN SubjectList
                            ELSE {subject},
                  correctOption : MockOptions]]

(* generateTest for a body with questionCount in counts and subject in *)
(* subjects: the MockTest row, its questions, the activity entry       *)
GenerateTestOf(counts, subjects) ==
    /\ Cardinality(mockTests) < MaxTests
    /\ \E u \in UserIds, questionCount \in counts, subject \in subjects :
         \E questions \in GeneratedQuestions(TestCount(questionCount), subject) :
            /\ mockTests' = mockTests \cup
                   {[id |-> NewId(mockTests), questionCount |-> TestCount(questionCount),
                     totalMarks |-> TestCount(questionCount) * 2, questions |-> questions]}
            /\ userActivity' = LogActivity(u, "mock_test")
    /\ UNCHANGED <<planVars, mockAttempts, authVars, mainsVars, timeVars, req, mcqAttempts,
                   mcqResponses, userStreak, activeDays>>

(* req.body.questionCount is any number the client sends, req.body.subject *)
(* any string                                                             *)
GenerateTest ==
    GenerateTestOf({-1} \cup 1..MaxTestQuestions, {"History", "All Subjects", "constructor"})

(* request bodies: answers maps question ids to an option, "" or nothing *)
TestAnswers(test) == [DOMAIN test.questions -> MockOptions \cup {"", "null"}]

(* answers?.[q.id] || null *)
TestSelected(answers, q) == IF answers[q] = "" THEN "null" ELSE answers[q]

SubjectTally(test, answers, subject) ==
    LET qs == {q \in DOMAIN test.questions : test.questions[q].subject = subject}
        right == {q \in qs : TestSelected(answers, q) = test.questions[q].correctOption}
        blank == {q \in qs : TestSelected(answers, q) = "null"}
    IN  [correct |-> Cardinality(right), wrong |-> Cardinality(qs \ (right \cup blank)),
         total |-> Cardinality(qs)]

(* const subjectWise = {}: the names an object literal inherits, for which *)
(* subjectWise[name] is already set, so no entry of its own is created    *)
Inherited == {"constructor", "toString", "valueOf", "__proto__"}

(* if (!subjectWise[q.subject]) subjectWise[q.subject] = { correct: 0, wrong: 0, total: 0 } *)
OwnSubjects(test) == {test.questions[q].subject : q \in DOMAIN test.questions} \ Inherited

TestScore_NoFloor(correct, wrong) == RoundTenths(200 * correct - 66 * wrong, 100)

(* Math.max(0, Math.round((correctCount * 2 - wrongCount * 0.66) * 10) / 10) *)
TestScore(correct, wrong) == Max(0, RoundTenths(200 * correct - 66 * wrong, 100))

GradeTest(test, answers) ==
    LET qs == DOMAIN test.questions
        right == {q \in qs : TestSelected(answers, q) = test.questions[q].correctOption}
        blank == {q \in qs : TestSelected(answers, q) = "null"}
        c == Cardinality(right)
        w == Cardinality(qs \ (right \cup blank))
    IN  [correctCount |-> c, wrongCount |-> w, skippedCount |-> Cardinality(blank),
         score |-> TestScore(c, w), accuracy |-> Accuracy(c, w),
         subjectWise |-> [sb \in OwnSubjects(test) |-> SubjectTally(test, answers, sb)]]

(* submitTest: 404 without the test, else a new completed MockTestAttempt and *)
(* the activity entry                                                        *)
SubmitTest ==
    /\ Cardinality(mockAttempts) < MaxReq
    /\ \E u \in UserIds, test \in mockTests :
         \E answers \in TestAnswers(test) :
            /\ mockAttempts' = mockAttempts \cup
                   {[id |-> NewId(mockAttempts), userId |-> u, mockTestId |-> test.id,
                     totalMarks |-> test.totalMarks, completedAt |-> clock + 1]
                    @@ GradeTest(test, answers)}
            /\ clock' = clock + 1
            /\ userActivity' = LogActivity(u, "mock_test")
    /\ UNCHANGED <<planVars, mockTests, authVars, mainsVars, day, req, mcqAttempts, mcqResponses,
                   userStreak, activeDays>>

(* the mock-test handlers *)
NextTest == GenerateTest \/ SubmitTest

----------------------------------------------------------------------------
(* Accounts: the identity provider, the users table, authenticate *)

(* accounts of the identity provider: those of the stored users and more *)
Accounts == 1..(NumUsers + NewAccounts)

Emails == [name : Accounts, caps : BOOLEAN]

ToLowerCase_Identity(email) == email

(* email.toLowerCase() *)
ToLowerCase(email) == [name |-> email.name, caps |-> FALSE]

(* prisma.user.findUnique({ where: { email } }) *)
FindUserByEmail(email) ==
    IF \E u \in users : u.email = email
    THEN CHOOSE u \in users : u.email = email
    ELSE NoRow

(* prisma.user.findUnique({ where: { supabaseId } }) *)
FindUserBySupabaseId(id) ==
    IF \E u \in users : u.supabaseId = id
    THEN CHOOSE u \in users : u.supabaseId = id
    ELSE NoRow

(* the unique indexes of the users table, on supabase_id and on email *)
UniqueViolation(row) ==
    \E u \in users : u.supabaseId = row.supabaseId \/ u.email = row.email

(* a request of the accounts API or behind authenticate *)
AuthReq(kind, pc, header, token, email, resp) ==
    [kind |-> kind, pc |-> pc, user |-> 0, item |-> token, resp |-> resp,
     header |-> header, email |-> email]

Answer(r, code) == [req[r] EXCEPT !.pc = "done", !.resp = code]

Goto(r, pc, user) == [req[r] EXCEPT !.pc = pc, !.user = user]

(* supabase.auth.getUser(token): the account the token was issued to, *)
(* 0 when the token is unknown or has expired                         *)
GetUser(token) == IF token \in tokens THEN token ELSE 0

(* what the provider answers a signUp for an address that is registered *)
(* already: the id of an obfuscated user that is no account             *)
ObfuscatedId(name) == 0 - name

(* a browser signs in through the provider's OAuth flow: the account is *)
(* created when new and an access token is issued                       *)
OAuthSignIn ==
    /\ \E a \in Accounts :
         /\ a \notin provider \/ a \notin tokens
         /\ provider' = provider \cup {a}
         /\ tokens' = tokens \cup {a}
    /\ UNCHANGED <<planVars, testVars, mainsVars, timeVars, mcqVars, req, activeDays, users, handled, session>>

(* an access token expires *)
TokenExpires ==
    /\ \E a \in tokens : tokens' = tokens \ {a}
    /\ UNCHANGED <<planVars, testVars, mainsVars, timeVars, mcqVars, req, activeDays, users, provider,
                   handled, session>>

(* authenticate: the Authorization header; 401 unless it is a bearer token *)
AuthHeader(r, conc) ==
    /\ CanStart(r, conc)
    /\ \E header \in {"none", "Basic", "Bearer"}, token \in {0} \cup Accounts :
         /\ header # "Bearer" => token = 0
         /\ req' = [req EXCEPT ![r] =
                IF header = "Bearer"
                THEN AuthReq("protected", "getUser", header, token, 0, 0)
                ELSE AuthReq("protected", "done", header, token, 0, 401)]
    /\ UNCHANGED <<planVars, testVars, authVars, mainsVars, timeVars, mcqVars, activeDays>>

(* authenticate: supabase.auth.getUser(token); 401 on an error or no user, *)
(* 500 when the call throws                                               *)
AuthGetUser(r) ==
    /\ req[r].kind = "protected" /\ req[r].pc = "getUser"
    /\ \E ok \in BOOLEAN :
         LET authUser == GetUser(req[r].item)
         IN  req' = [req EXCEPT ![r] =
                 IF ~ok THEN Answer(r, 500)
                 ELSE IF authUser = 0 THEN Answer(r, 401)
                 ELSE Goto(r, "findUser", authUser)]
    /\ UNCHANGED <<planVars, testVars, authVars, mainsVars, timeVars, mcqVars, activeDays>>

UserNotFound_Never(user) == FALSE

(* if (!user) *)
UserNotFound(user) == user.id = 0

(* authenticate: prisma.user.findUnique by supabaseId; 401 without a row, *)
(* 500 when the call throws; else req.user = user and next()              *)
AuthFindUser(r) ==
    /\ req[r].kind = "protected" /\ req[r].pc = "findUser"
    /\ \E ok \in BOOLEAN :
         LET user == FindUserBySupabaseId(req[r].user)
         IN  req' = [req EXCEPT ![r] =
                 IF ~ok THEN Answer(r, 500)
                 ELSE IF UserNotFound(user) THEN Answer(r, 401)
                 ELSE Goto(r, "handler", user.id)]
    /\ UNCHANGED <<planVars, testVars, authVars, mainsVars, timeVars, mcqVars, activeDays>>

(* the handler mounted behind authenticate, here getStreak for req.user.id *)
Handler(r) ==
    /\ req[r].kind = "protected" /\ req[r].pc = "handler"
    /\ handled' = handled \cup {r}
    /\ userStreak' =
           IF FindStreak(req[r].user).id = 0
           THEN userStreak \cup
                    {[id |-> NewId(userStreak), userId |-> req[r].user, currentStreak |-> 0,
                      longestStreak |-> 0, lastActiveDate |-> 0]}
           ELSE userStreak
    /\ req' = [req EXCEPT ![r] = Answer(r, 200)]
    /\ UNCHANGED <<planVars, testVars, mainsVars, timeVars, mcqAttempts, mcqResponses, userActivity,
                   activeDays, users, provider, tokens, session>>

(* signup: validation of the body (400), then findUnique by the lower-cased *)
(* e-mail address (409 when a row has it)                                   *)
SignupFind(r, conc) ==
    /\ CanStart(r, conc)
    /\ \E valid \in BOOLEAN, email \in Emails :
         req' = [req EXCEPT ![r] =
             IF ~valid THEN AuthReq("signup", "done", "none", 0, email, 400)
             ELSE IF FindUserByEmail(ToLowerCase(email)).id # 0
             THEN AuthReq("signup", "done", "none", 0, email, 409)
             ELSE AuthReq("signup", "signUp", "none", 0, email, 0)]
    /\ UNCHANGED <<planVars, testVars, authVars, mainsVars, timeVars, mcqVars, activeDays>>

(* what supabase.auth.signUp may answer *)
SignUpOutcomes(account) ==
    IF account \in provider THEN {"error", "obfuscated"}
    ELSE {"error", "noUser", "user", "session"}

(* signup: supabase.auth.signUp; 400 on an error, 500 without a user *)
SignupProvider(r) ==
    /\ req[r].kind = "signup" /\ req[r].pc = "signUp"
    /\ LET account == ToLowerCase(req[r].email).name
       IN  \E out \in SignUpOutcomes(account) :
             /\ req' = [req EXCEPT ![r] =
                    CASE out = "error" -> Answer(r, 400)
                      [] out = "noUser" -> Answer(r, 500)
                      [] out = "obfuscated" -> Goto(r, "create", ObfuscatedId(account))
                      [] OTHER -> Goto(r, "create", account)]
             /\ provider' = IF out \in {"user", "session"} THEN provider \cup {account}
                            ELSE provider
             /\ tokens' = IF out = "session" THEN tokens \cup {account} ELSE tokens
             /\ session' = IF out = "session" THEN account ELSE session
    /\ UNCHANGED <<planVars, testVars, mainsVars, timeVars, mcqVars, activeDays, users, handled>>

(* prisma.user.create: the new row, or nothing when the insert throws *)
CreateUser(supabaseId, email, ok) ==
    LET row == [id |-> NewId(users), supabaseId |-> supabaseId, email |-> email]
    IN  IF ok /\ ~UniqueViolation(row) THEN {row} ELSE {}

(* signup: prisma.user.create; 201, or 500 through next(error) *)
SignupCreate(r) ==
    /\ req[r].kind = "signup" /\ req[r].pc = "create"
    /\ \E ok \in BOOLEAN :
         LET created == CreateUser(req[r].user, ToLowerCase(req[r].email), ok)
         IN  /\ users' = users \cup created
             /\ req' = [req EXCEPT ![r] = Answer(r, IF created = {} THEN 500 ELSE 201)]
    /\ UNCHANGED <<planVars, testVars, mainsVars, timeVars, mcqVars, activeDays, provider, tokens,
                   handled, session>>

(* login: validation of the body (400), then signInWithPassword with the *)
(* lower-cased address; 401 on an error or without a session             *)
LoginSignIn(r, conc) ==
    /\ CanStart(r, conc)
    /\ \E valid \in BOOLEAN, email \in Emails, granted \in BOOLEAN :
         LET account == ToLowerCase(email).name
         IN  IF valid /\ granted /\ account \in provider
             THEN /\ tokens' = tokens \cup {account}
                  /\ session' = account
                  /\ req' = [req EXCEPT ![r] =
                         [AuthReq("login", "find", "none", account, email, 0)
                              EXCEPT !.user = account]]
             ELSE /\ tokens' = tokens
                  /\ session' = session
                  /\ req' = [req EXCEPT ![r] =
                         AuthReq("login", "done", "none", 0, email,
                                 IF valid THEN 401 ELSE 400)]
    /\ UNCHANGED <<planVars, testVars, mainsVars, timeVars, mcqVars, activeDays, users, provider,
                   handled>>

Missing_Never(user) == FALSE

(* if (!user) of login and authCallback *)
Missing(user) == user.id = 0

(* login: prisma.user.findUnique by supabaseId; success when the row exists *)
LoginFind(r) ==
    /\ req[r].kind = "login" /\ req[r].pc = "find"
    /\ req' = [req EXCEPT ![r] =
           IF Missing(FindUserBySupabaseId(req[r].user)) THEN Goto(r, "create", req[r].user)
           ELSE Answer(r, 200)]
    /\ UNCHANGED <<planVars, testVars, authVars, mainsVars, timeVars, mcqVars, activeDays>>

(* login: prisma.user.create for an account without a row *)
LoginCreate(r) ==
    /\ req[r].kind = "login" /\ req[r].pc = "create"
    /\ \E ok \in BOOLEAN :
         LET created == CreateUser(req[r].user, [name |-> req[r].user, caps |-> FALSE], ok)
         IN  /\ users' = users \cup created
             /\ req' = [req EXCEPT ![r] = Answer(r, IF created = {} THEN 500 ELSE 200)]
    /\ UNCHANGED <<planVars, testVars, mainsVars, timeVars, mcqVars, activeDays, provider, tokens,
                   handled, session>>

(* authCallback: 400 without an access token, then getUser; 401 on an error *)
CallbackGetUser(r, conc) ==
    /\ CanStart(r, conc)
    /\ \E given \in BOOLEAN, token \in {0} \cup Accounts :
         /\ ~given => token = 0
         /\ LET authUser == GetUser(token)
            IN  req' = [req EXCEPT ![r] =
                    IF ~given THEN AuthReq("authCallback", "done", "none", token, 0, 400)
                    ELSE IF authUser = 0
                    THEN AuthReq("authCallback", "done", "body", token, 0, 401)
                    ELSE [AuthReq("authCallback", "find", "body", token, 0, 0)
                              EXCEPT !.user = authUser]]
    /\ UNCHANGED <<planVars, testVars, authVars, mainsVars, timeVars, mcqVars, activeDays>>

(* authCallback: prisma.user.findUnique by supabaseId *)
CallbackFind(r) ==
    /\ req[r].kind = "authCallback" /\ req[r].pc = "find"
    /\ req' = [req EXCEPT ![r] =
           IF Missing(FindUserBySupabaseId(req[r].user)) THEN Goto(r, "create", req[r].user)
           ELSE Answer(r, 200)]
    /\ UNCHANGED <<planVars, testVars, authVars, mainsVars, timeVars, mcqVars, activeDays>>

(* authCallback: prisma.user.create for an account without a row *)
CallbackCreate(r) ==
    /\ req[r].kind = "authCallback" /\ req[r].pc = "create"
    /\ \E ok \in BOOLEAN :
         LET created == CreateUser(req[r].user, [name |-> req[r].user, caps |-> FALSE], ok)
         IN  /\ users' = users \cup created
             /\ req' = [req EXCEPT ![r] = Answer(r, IF created = {} THEN 500 ELSE 200)]
    /\ UNCHANGED <<planVars, testVars, mainsVars, timeVars, mcqVars, activeDays, provider, tokens,
                   handled, session>>

(* getMe: the Authorization header; 401 unless it is a bearer token *)
GetMeHeader(r, conc) ==
    /\ CanStart(r, conc)
    /\ \E header \in {"none", "Basic", "Bearer"}, token \in {0} \cup Accounts :
         /\ header # "Bearer" => token = 0
         /\ req' = [req EXCEPT ![r] =
                IF header = "Bearer" THEN AuthReq("getMe", "getUser", header, token, 0, 0)
                ELSE AuthReq("getMe", "done", header, token, 0, 401)]
    /\ UNCHANGED <<planVars, testVars, authVars, mainsVars, timeVars, mcqVars, activeDays>>

(* getMe: supabase.auth.getUser(token); 401 on an error or no user, 500 *)
(* through next(error) when the call throws                             *)
GetMeGetUser(r) ==
    /\ req[r].kind = "getMe" /\ req[r].pc = "getUser"
    /\ \E ok \in BOOLEAN :
         LET authUser == GetUser(req[r].item)
         IN  req' = [req EXCEPT ![r] =
                 IF ~ok THEN Answer(r, 500)
                 ELSE IF authUser = 0 THEN Answer(r, 401)
                 ELSE Goto(r, "findUser", authUser)]
    /\ UNCHANGED <<planVars, testVars, authVars, mainsVars, timeVars, mcqVars, activeDays>>

(* getMe: prisma.user.findUnique by supabaseId; 404 without a row *)
GetMeFindUser(r) ==
    /\ req[r].kind = "getMe" /\ req[r].pc = "findUser"
    /\ \E ok \in BOOLEAN :
         LET user == FindUserBySupabaseId(req[r].user)
         IN  req' = [req EXCEPT ![r] =
                 IF ~ok THEN Answer(r, 500)
                 ELSE IF user.id = 0 THEN Answer(r, 404)
                 ELSE Answer(r, 200)]
    /\ UNCHANGED <<planVars, testVars, authVars, mainsVars, timeVars, mcqVars, activeDays>>

(* supabase.auth.signOut() on the server's client: it ends the session the *)
(* client holds, if any; whether the tokens of that session are refused    *)
(* from then on is the provider's choice                                   *)
SignOut(revoked) == IF session # 0 /\ revoked THEN tokens \ {session} ELSE tokens

(* logout: with a bearer header signOut() is called, without the token of *)
(* the header; the answer is success either way                          *)
Logout(r) ==
    /\ CanStart(r, TRUE)
    /\ \E header \in {"none", "Basic", "Bearer"}, token \in {0} \cup Accounts,
          revoked \in BOOLEAN :
         /\ header # "Bearer" => token = 0 /\ revoked
         /\ tokens' = IF header = "Bearer" THEN SignOut(revoked) ELSE tokens
         /\ session' = IF header = "Bearer" THEN 0 ELSE session
         /\ req' = [req EXCEPT ![r] = AuthReq("logout", "done", header, token, 0, 200)]
    /\ UNCHANGED <<planVars, testVars, mainsVars, timeVars, mcqVars, activeDays, users, provider,
                   handled>>

(* optionalAuth hands the request on: next(), with req.user set or not *)
CallNext(r, user) == [req[r] EXCEPT !.pc = "handler", !.user = user, !.nexts = @ + 1]

OptCatch_Rejects(r) == Answer(r, 500)

(* optionalAuth: catch (error) { next() } *)
OptCatch(r) == CallNext(r, 0)

(* optionalAuth: the Authorization header; next() unless it is a bearer token *)
OptHeader(r, conc) ==
    /\ CanStart(r, conc)
    /\ \E header \in {"none", "Basic", "Bearer"}, token \in {0} \cup Accounts :
         /\ header # "Bearer" => token = 0
         /\ req' = [req EXCEPT ![r] =
                IF header = "Bearer"
                THEN AuthReq("optional", "getUser", header, token, 0, 0) @@ [nexts |-> 0]
                ELSE AuthReq("optional", "handler", header, token, 0, 0) @@ [nexts |-> 1]]
    /\ UNCHANGED <<planVars, testVars, authVars, mainsVars, timeVars, mcqVars, activeDays>>

(* optionalAuth: supabase.auth.getUser(token); next() without a user *)
OptGetUser(r) ==
    /\ req[r].kind = "optional" /\ req[r].pc = "getUser"
    /\ \E ok \in BOOLEAN :
         LET authUser == GetUser(req[r].item)
         IN  req' = [req EXCEPT ![r] =
                 IF ~ok THEN OptCatch(r)
                 ELSE IF authUser = 0 THEN CallNext(r, 0)
                 ELSE Goto(r, "findUser", authUser)]
    /\ UNCHANGED <<planVars, testVars, authVars, mainsVars, timeVars, mcqVars, activeDays>>

(* optionalAuth: prisma.user.findUnique by supabaseId; req.user = user when *)
(* there is a row; next()                                                   *)
OptFindUser(r) ==
    /\ req[r].kind = "optional" /\ req[r].pc = "findUser"
    /\ \E ok \in BOOLEAN :
         req' = [req EXCEPT ![r] =
             IF ~ok THEN OptCatch(r)
             ELSE CallNext(r, FindUserBySupabaseId(req[r].user).id)]
    /\ UNCHANGED <<planVars, testVars, authVars, mainsVars, timeVars, mcqVars, activeDays>>

(* the handler mounted behind optionalAuth, here getTodayMCQ *)
OptHandler(r) ==
    /\ req[r].kind = "optional" /\ req[r].pc = "handler"
    /\ req' = [req EXCEPT ![r] = Answer(r, IF FindDailyMcq(day).id = 0 THEN 404 ELSE 200)]
    /\ UNCHANGED <<planVars, testVars, authVars, mainsVars, timeVars, mcqVars, activeDays>>

AuthStep(r) ==
    \/ AuthGetUser(r)
    \/ AuthFindUser(r)
    \/ Handler(r)
    \/ SignupProvider(r)
    \/ SignupCreate(r)
    \/ LoginFind(r)
    \/ LoginCreate(r)
    \/ CallbackFind(r)
    \/ CallbackCreate(r)

(* the accounts API and a protected route, requests arriving at any time *)
NextAuth ==
    \/ \E r \in Reqs : AuthHeader(r, TRUE) \/ SignupFind(r, TRUE) \/ LoginSignIn(r, TRUE)
                       \/ CallbackGetUser(r, TRUE)
    \/ \E r \in Reqs : AuthStep(r)
    \/ OAuthSignIn
    \/ TokenExpires

----------------------------------------------------------------------------
(* The app: routes, notFoundHandler, errorHandler *)

(* the errors a handler passes to next(): statusCode and status may be   *)
(* missing (0, "undefined") or falsy, the message is a string            *)
AppErrors == [statusCode : {0, 400, 503}, status : {"undefined", "", "fail"},
              message : {"", "connection refused"}]

ErrorHandler_Bare(err) == [code |-> 500, body |-> [message |-> err.message]]

(* errorHandler: err.statusCode || 500, err.status || "error", err.message *)
ErrorHandler(err) ==
    [code |-> IF err.statusCode = 0 THEN 500 ELSE err.statusCode,
     body |-> [status |-> IF err.status \in {"undefined", ""} THEN "error" ELSE err.status,
               message |-> err.message]]

(* notFoundHandler *)
NotFoundHandler == [code |-> 404, body |-> [status |-> "error", message |-> "Route not found"]]

(* the responses handlers send themselves: res.status(code).json({ status: *)
(* "error", message }), by what the handler found wrong                    *)
InlineErrors ==
    {[cause |-> "validation", code |-> 400], [cause |-> "missing", code |-> 404],
     [cause |-> "unauthorized", code |-> 401], [cause |-> "conflict", code |-> 409],
     [cause |-> "failed", code |-> 500]}

Inline(code) == [code |-> code, body |-> [status |-> "error", message |-> "message"]]

AppReq(pc, cause, err, res) ==
    [kind |-> "app", pc |-> pc, user |-> 0, item |-> 0, resp |-> res.code,
     cause |-> cause, err |-> err, body |-> res.body]

NoResponse == [code |-> 0, body |-> [status |-> "none"]]

NoError == [statusCode |-> 0, status |-> "undefined", message |-> ""]

(* app.use("/api", routes); app.use(notFoundHandler) *)
AppRoute(r, conc) ==
    /\ CanStart(r, conc)
    /\ \E matched \in BOOLEAN :
         req' = [req EXCEPT ![r] =
             IF matched THEN AppReq("route", "none", NoError, NoResponse)
             ELSE AppReq("done", "unmatched", NoError, NotFoundHandler)]
    /\ UNCHANGED <<planVars, testVars, authVars, mainsVars, timeVars, mcqVars, activeDays>>

(* a route handler: answers success, answers an error itself, or catches *)
(* an exception and calls next(error)                                    *)
AppHandler(r) ==
    /\ req[r].kind = "app" /\ req[r].pc = "route"
    /\ \E out \in {"success", "inline", "throws"} :
         CASE out = "success" ->
                req' = [req EXCEPT ![r] =
                    AppReq("done", "none", NoError,
                           [code |-> 200, body |-> [status |-> "success"]])]
           [] out = "inline" ->
                \E e \in InlineErrors :
                    req' = [req EXCEPT ![r] = AppReq("done", e.cause, NoError, Inline(e.code))]
           [] OTHER ->
                \E err \in AppErrors :
                    req' = [req EXCEPT ![r] = AppReq("next", "next", err, NoResponse)]
    /\ UNCHANGED <<planVars, testVars, authVars, mainsVars, timeVars, mcqVars, activeDays>>

(* app.use(errorHandler) *)
AppError(r) ==
    /\ req[r].kind = "app" /\ req[r].pc = "next"
    /\ req' = [req EXCEPT ![r] = AppReq("done", "next", req[r].err, ErrorHandler(req[r].err))]
    /\ UNCHANGED <<planVars, testVars, authVars, mainsVars, timeVars, mcqVars, activeDays>>

(* requests through the app's middleware chain *)
NextApp == \E r \in Reqs : AppRoute(r, TRUE) \/ AppHandler(r) \/ AppError(r)

----------------------------------------------------------------------------
(* Reading questions and reviews *)

(* select of getTodayQuestions: the question without answer and explanation *)
TodayQuestionFields == {"id", "questionNum", "questionText", "category", "difficulty", "options"}

(* select of getTestQuestions *)
TestQuestionFields ==
    {"id", "questionNum", "questionText", "subject", "category", "difficulty", "options"}

(* reviewData of getTodayReview *)
TodayReviewFields ==
    TodayQuestionFields \cup {"correctOption", "explanation", "selectedOption", "isCorrect"}

(* questionReview of getTestResults *)
TestReviewFields ==
    {"id", "questionNum", "questionText", "subject", "options", "correctOption",
     "selectedOption", "isCorrect", "explanation"}

(* the answer of a read: what it shows of each question *)
ReadReq(kind, u, item, code, fields) ==
    [kind |-> kind, pc |-> "done", user |-> u, item |-> item, resp |-> code, fields |-> fields]

(* getTodayQuestions: 404 without today's MCQ *)
GetTodayQuestions(r) ==
    /\ CanStart(r, TRUE)
    /\ \E u \in UserIds :
         LET mcq == FindDailyMcq(day)
         IN  req' = [req EXCEPT ![r] =
                 IF mcq.id = 0 THEN ReadReq("getTodayQuestions", u, 0, 404, {})
                 ELSE ReadReq("getTodayQuestions", u, mcq.id, 200, TodayQuestionFields)]
    /\ UNCHANGED <<planVars, testVars, authVars, mainsVars, timeVars, mcqVars, activeDays>>

NoAttempt_Never(attempt) == FALSE

(* if (!attempt) *)
NoAttempt(attempt) == attempt.id = 0

(* getTodayReview: 404 without today's MCQ or without the user's attempt *)
GetTodayReview(r) ==
    /\ CanStart(r, TRUE)
    /\ \E u \in UserIds :
         LET mcq == FindDailyMcq(day)
         IN  req' = [req EXCEPT ![r] =
                 IF mcq.id = 0 THEN ReadReq("getTodayReview", u, 0, 404, {})
                 ELSE IF NoAttempt(FindAttempt(u, mcq.id))
                 THEN ReadReq("getTodayReview", u, mcq.id, 404, {})
                 ELSE ReadReq("getTodayReview", u, mcq.id, 200, TodayReviewFields)]
    /\ UNCHANGED <<planVars, testVars, authVars, mainsVars, timeVars, mcqVars, activeDays>>

(* the testId of a request: a MockTest row's id or an id no row has *)
TestIds == 1..(MaxTests + 1)

(* getTestQuestions: 404 without the test *)
GetTestQuestions(r) ==
    /\ CanStart(r, TRUE)
    /\ \E u \in UserIds, testId \in TestIds :
         req' = [req EXCEPT ![r] =
             IF \E t \in mockTests : t.id = testId
             THEN ReadReq("getTestQuestions", u, testId, 200, TestQuestionFields)
             ELSE ReadReq("getTestQuestions", u, testId, 404, {})]
    /\ UNCHANGED <<planVars, testVars, authVars, mainsVars, timeVars, mcqVars, activeDays>>

(* mockTestAttempt.findFirst({ userId, mockTestId, completedAt: { not: null } }) *)
CompletedTestAttempts(u, testId) ==
    {a \in mockAttempts : a.userId = u /\ a.mockTestId = testId /\ a.completedAt # 0}

(* getTestResults: 404 without a completed attempt of the user *)
GetTestResults(r) ==
    /\ CanStart(r, TRUE)
    /\ \E u \in UserIds, testId \in TestIds :
         req' = [req EXCEPT ![r] =
             IF CompletedTestAttempts(u, testId) = {}
             THEN ReadReq("getTestResults", u, testId, 404, {})
             ELSE ReadReq("getTestResults", u, testId, 200, TestReviewFields)]
    /\ UNCHANGED <<planVars, testVars, authVars, mainsVars, timeVars, mcqVars, activeDays>>

(* the id `${userId}_${testId}_draft` *)
DraftId(u, testId) == 0 - (u * (MaxTests + 2) + testId)

(* saveProgress: upserts the draft attempt, which has no completedAt; a *)
(* failing upsert is swallowed                                          *)
SaveProgress ==
    /\ \E u \in UserIds, t \in mockTests :
         /\ \A a \in mockAttempts : a.id # DraftId(u, t.id)
         /\ mockAttempts' = mockAttempts \cup
                {[id |-> DraftId(u, t.id), userId |-> u, mockTestId |-> t.id,
                  totalMarks |-> 0, completedAt |-> 0]}
    /\ UNCHANGED <<planVars, mockTests, authVars, mainsVars, timeVars, mcqVars, req, activeDays>>

----------------------------------------------------------------------------
(* The study planner: tasks, the study streak, the weekly goals *)

FindTask_AnyOwner(id, u) ==
    IF \E t \in studyPlanTasks : t.id = id
    THEN CHOOSE t \in studyPlanTasks : t.id = id
    ELSE [id |-> 0]

(* studyPlanTask.findFirst({ where: { id, userId } }) *)
FindTask(id, u) ==
    IF \E t \in studyPlanTasks : t.id = id /\ t.userId = u
    THEN CHOOSE t \in studyPlanTasks : t.id = id /\ t.userId = u
    ELSE [id |-> 0]

FindStudyStreak(u) ==
    IF \E s \in studyStreak : s.userId = u
    THEN CHOOSE s \in studyStreak : s.userId = u
    ELSE [id |-> 0]

(* req.params.id: the tasks there may be, and an id that no task has *)
TaskIds == 1..(MaxTasks + 1)

PlanKinds == {"getTodayTasks", "createTask", "updateTask", "deleteTask", "getStudyStreak",
              "getWeeklyGoals"}

PlanReq(kind, pc, u, item, resp, data) ==
    [kind |-> kind, pc |-> pc, user |-> u, item |-> item, resp |-> resp, data |-> data]

(* the response has been sent: the server keeps nothing of the request *)
Release(r) ==
    /\ req[r].pc = "done" /\ req[r].kind \in PlanKinds
    /\ req' = [req EXCEPT ![r] = Idle]
    /\ UNCHANGED <<planVars, testVars, authVars, mainsVars, timeVars, mcqVars, activeDays>>

(* getTodayTasks: findMany({ where: { userId, date: today } }) *)
GetTodayTasks(r, conc) ==
    /\ CanStart(r, conc)
    /\ \E u \in UserIds :
         req' = [req EXCEPT ![r] =
             PlanReq("getTodayTasks", "done", u, 0, 200,
                     {t \in studyPlanTasks : t.userId = u /\ t.date = day})]
    /\ UNCHANGED <<planVars, testVars, authVars, mainsVars, timeVars, mcqVars, activeDays>>

(* the columns of StudyPlanTask that createTask does not set: the store's *)
(* defaults, not completed and no completedAt                             *)
TaskDefaults == [isCompleted |-> FALSE, completedAt |-> 0]

(* createTask: 400 without a title, else studyPlanTask.create *)
CreateTask(r, conc) ==
    /\ CanStart(r, conc)
    /\ \E u \in UserIds, title \in {"", "t"}, date \in {0} \cup Days :
         IF title = ""
         THEN /\ req' = [req EXCEPT ![r] = PlanReq("createTask", "done", u, 0, 400, {})]
              /\ UNCHANGED <<studyPlanTasks, clock>>
         ELSE /\ clock < MaxTasks
              /\ studyPlanTasks' = studyPlanTasks \cup
                     {[id |-> clock + 1, userId |-> u, title |-> title,
                       date |-> IF date = 0 THEN day ELSE date] @@ TaskDefaults}
              /\ clock' = clock + 1
              /\ req' = [req EXCEPT ![r] =
                     PlanReq("createTask", "done", u, clock + 1, 201, {})]
    /\ UNCHANGED <<testVars, authVars, mainsVars, day, mcqVars, activeDays, studyStreak,
                   weeklyGoals, studyDays>>

(* req.body of updateTask: title and isCompleted, each given or not *)
UpdateBodies == [title : {"undefined", "t2"}, isCompleted : {"undefined", "true", "false"}]

(* updateTask: studyPlanTask.findFirst({ where: { id, userId } }), 404 without *)
UpdateTaskFind(r, conc) ==
    /\ CanStart(r, conc)
    /\ \E u \in UserIds, id \in TaskIds, body \in UpdateBodies :
         req' = [req EXCEPT ![r] =
             IF FindTask(id, u).id = 0
             THEN PlanReq("updateTask", "done", u, id, 404, {})
             ELSE PlanReq("updateTask", "taskUpdate", u, id, 0, {}) @@ [body |-> body]]
    /\ UNCHANGED <<planVars, testVars, authVars, mainsVars, timeVars, mcqVars, activeDays>>

UpdateData_KeepsCompletedAt(t, body) ==
    [t EXCEPT !.title = IF body.title # "undefined" THEN body.title ELSE @,
              !.isCompleted = IF body.isCompleted # "undefined"
                              THEN body.isCompleted = "true" ELSE @]

(* updateData: title when given; isCompleted, and completedAt with it, when given *)
UpdateData(t, body) ==
    [t EXCEPT !.title = IF body.title # "undefined" THEN body.title ELSE @,
              !.isCompleted = IF body.isCompleted # "undefined"
                              THEN body.isCompleted = "true" ELSE @,
              !.completedAt = IF body.isCompleted = "undefined" THEN @
                              ELSE IF body.isCompleted = "true" THEN day ELSE 0]

(* updateTask: studyPlanTask.update({ where: { id } }); it throws when the row *)
(* is gone; then updateStudyStreak if (isCompleted)                            *)
TaskUpdate(r) ==
    /\ req[r].kind = "updateTask" /\ req[r].pc = "taskUpdate"
    /\ IF \E t \in studyPlanTasks : t.id = req[r].item
       THEN LET t == CHOOSE x \in studyPlanTasks : x.id = req[r].item
            IN  /\ studyPlanTasks' = (studyPlanTasks \ {t}) \cup {UpdateData(t, req[r].body)}
                /\ req' = [req EXCEPT ![r].pc = IF req[r].body.isCompleted = "true"
                                                THEN "studyRead" ELSE "done",
                                      ![r].resp = IF req[r].body.isCompleted = "true"
                                                  THEN 0 ELSE 200]
       ELSE /\ req' = [req EXCEPT ![r].pc = "done", ![r].resp = 500]
            /\ UNCHANGED studyPlanTasks
    /\ UNCHANGED <<testVars, authVars, mainsVars, timeVars, mcqVars, activeDays, studyStreak,
                   weeklyGoals, studyDays>>

StudiedToday_Never(streak, today) == FALSE

(* if (lastDate && lastDate.getTime() === today.getTime()) return *)
StudiedToday(streak, today) == streak.lastStudyDate # 0 /\ streak.lastStudyDate = today

(* isConsecutive ? streak.currentStreak + 1 : 1 *)
NewStudyStreak(streak, today) ==
    IF streak.lastStudyDate # 0 /\ streak.lastStudyDate = today - 1
    THEN streak.currentStreak + 1
    ELSE 1

(* updateStudyStreak: getToday(); studyStreak.findUnique; the early return *)
StudyRead(r) ==
    /\ req[r].kind = "updateTask" /\ req[r].pc = "studyRead"
    /\ LET streak == FindStudyStreak(req[r].user)
       IN  IF streak.id # 0 /\ StudiedToday(streak, day)
           THEN /\ req' = [req EXCEPT ![r].pc = "done", ![r].resp = 200]
                /\ studyDays' = [studyDays EXCEPT ![req[r].user] = @ \cup {day}]
           ELSE /\ req' = [req EXCEPT ![r] =
                       [req[r] EXCEPT !.pc = "studyWrite"] @@
                       [row |-> IF streak.id = 0
                                THEN [id |-> 0, userId |-> req[r].user, currentStreak |-> 1,
                                      longestStreak |-> 1, totalStudyDays |-> 1,
                                      lastStudyDate |-> day]
                                ELSE [streak EXCEPT
                                        !.currentStreak = NewStudyStreak(streak, day),
                                        !.longestStreak =
                                            Max(NewStudyStreak(streak, day), @),
                                        !.totalStudyDays = @ + 1,
                                        !.lastStudyDate = day]]]
                /\ UNCHANGED studyDays
    /\ UNCHANGED <<testVars, authVars, mainsVars, timeVars, mcqVars, activeDays, studyPlanTasks,
                   studyStreak, weeklyGoals>>

(* updateStudyStreak: studyStreak.create (userId is unique) or studyStreak.update, *)
(* then the response of updateTask                                                 *)
StudyWrite(r) ==
    /\ req[r].kind = "updateTask" /\ req[r].pc = "studyWrite"
    /\ LET old == FindStudyStreak(req[r].user)
           row == req[r].row
       IN  IF (row.id = 0) = (old.id = 0)
           THEN /\ studyStreak' = (studyStreak \ {old}) \cup
                       {IF row.id = 0 THEN [row EXCEPT !.id = NewId(studyStreak)] ELSE row}
                /\ studyDays' = [studyDays EXCEPT ![req[r].user] = @ \cup {row.lastStudyDate}]
                /\ req' = [req EXCEPT ![r] =
                       PlanReq("updateTask", "done", req[r].user, req[r].item, 200, {})]
           ELSE /\ req' = [req EXCEPT ![r] =
                       PlanReq("updateTask", "done", req[r].user, req[r].item, 500, {})]
                /\ UNCHANGED <<studyStreak, studyDays>>
    /\ UNCHANGED <<testVars, authVars, mainsVars, timeVars, mcqVars, activeDays, studyPlanTasks,
                   weeklyGoals>>

(* deleteTask: studyPlanTask.findFirst({ where: { id, userId } }), 404 without *)
DeleteTaskFind(r, conc) ==
    /\ CanStart(r, conc)
    /\ \E u \in UserIds, id \in TaskIds :
         req' = [req EXCEPT ![r] =
             IF FindTask(id, u).id = 0
             THEN PlanReq("deleteTask", "done", u, id, 404, {})
             ELSE PlanReq("deleteTask", "taskDelete", u, id, 0, {})]
    /\ UNCHANGED <<planVars, testVars, authVars, mainsVars, timeVars, mcqVars, activeDays>>

(* deleteTask: studyPlanTask.delete({ where: { id } }); it throws when the row is gone *)
TaskDelete(r) ==
    /\ req[r].kind = "deleteTask" /\ req[r].pc = "taskDelete"
    /\ studyPlanTasks' = {t \in studyPlanTasks : t.id # req[r].item}
    /\ req' = [req EXCEPT ![r].pc = "done",
                          ![r].resp = IF \E t \in studyPlanTasks : t.id = req[r].item
                                      THEN 200 ELSE 500]
    /\ UNCHANGED <<testVars, authVars, mainsVars, timeVars, mcqVars, activeDays, studyStreak,
                   weeklyGoals, studyDays>>

(* getStudyStreak: studyStreak.findUnique *)
GetStudyStreakFind(r, conc) ==
    /\ CanStart(r, conc)
    /\ \E u \in UserIds :
         req' = [req EXCEPT ![r] =
             IF FindStudyStreak(u).id # 0
             THEN PlanReq("getStudyStreak", "done", u, 0, 200, {FindStudyStreak(u)})
             ELSE PlanReq("getStudyStreak", "studyCreate", u, 0, 0, {})]
    /\ UNCHANGED <<planVars, testVars, authVars, mainsVars, timeVars, mcqVars, activeDays>>

(* getStudyStreak: studyStreak.create of the 0/0/0 row (userId is unique) *)
StudyCreate(r) ==
    /\ req[r].kind = "getStudyStreak" /\ req[r].pc = "studyCreate"
    /\ LET row == [id |-> NewId(studyStreak), userId |-> req[r].user, currentStreak |-> 0,
                   longestStreak |-> 0, totalStudyDays |-> 0, lastStudyDate |-> 0]
       IN  IF FindStudyStreak(req[r].user).id = 0
           THEN /\ studyStreak' = studyStreak \cup {row}
                /\ req' = [req EXCEPT ![r].pc = "done", ![r].resp = 200, ![r].data = {row}]
           ELSE /\ req' = [req EXCEPT ![r].pc = "done", ![r].resp = 500]
                /\ UNCHANGED studyStreak
    /\ UNCHANGED <<testVars, authVars, mainsVars, timeVars, mcqVars, activeDays, studyPlanTasks,
                   weeklyGoals, studyDays>>

WeekLength == 7

(* getWeekStart: the Monday of the week of day d *)
WeekStart(d) == d - ((d - FirstMonday) % WeekLength)

DefaultGoals ==
    <<[title |-> "Complete Daily MCQs", targetCount |-> 7],
      [title |-> "Practice Answer Writing", targetCount |-> 5],
      [title |-> "Read Editorials", targetCount |-> 7],
      [title |-> "Study Hours", targetCount |-> 35]>>

GoalsOf(u, weekStart) == {g \in weeklyGoals : g.userId = u /\ g.weekStart = weekStart}

(* if (goals.length === 0) *)
NoGoals(goals) == goals = {}

(* getWeeklyGoals: getWeekStart(); weeklyGoal.findMany({ where: { userId, weekStart } }) *)
GoalsFind(r, conc) ==
    /\ CanStart(r, conc)
    /\ \E u \in UserIds :
         LET goals == GoalsOf(u, WeekStart(day))
         IN  req' = [req EXCEPT ![r] =
                 IF NoGoals(goals)
                 THEN PlanReq("getWeeklyGoals", "goalsCreate", u, WeekStart(day), 0, {})
                      @@ [i |-> 1]
                 ELSE PlanReq("getWeeklyGoals", "done", u, WeekStart(day), 200, goals)]
    /\ UNCHANGED <<planVars, testVars, authVars, mainsVars, timeVars, mcqVars, activeDays>>

(* for (const g of defaults) weeklyGoal.create *)
GoalsCreate(r) ==
    /\ req[r].kind = "getWeeklyGoals" /\ req[r].pc = "goalsCreate"
    /\ weeklyGoals' = weeklyGoals \cup
           {[id |-> NewId(weeklyGoals), userId |-> req[r].user,
             title |-> DefaultGoals[req[r].i].title,
             targetCount |-> DefaultGoals[req[r].i].targetCount,
             weekStart |-> req[r].item]}
    /\ req' = [req EXCEPT ![r].i = @ + 1,
                          ![r].pc = IF req[r].i = Len(DefaultGoals) THEN "goalsRefind"
                                    ELSE "goalsCreate"]
    /\ UNCHANGED <<testVars, authVars, mainsVars, timeVars, mcqVars, activeDays, studyPlanTasks,
                   studyStreak, studyDays>>

(* getWeeklyGoals: the second findMany, then the response *)
GoalsRefind(r) ==
    /\ req[r].kind = "getWeeklyGoals" /\ req[r].pc = "goalsRefind"
    /\ req' = [req EXCEPT ![r] =
           PlanReq("getWeeklyGoals", "done", req[r].user, req[r].item, 200,
                   GoalsOf(req[r].user, req[r].item))]
    /\ UNCHANGED <<planVars, testVars, authVars, mainsVars, timeVars, mcqVars, activeDays>>

PlanStep(r) ==
    \/ TaskUpdate(r)
    \/ StudyRead(r)
    \/ StudyWrite(r)
    \/ TaskDelete(r)
    \/ StudyCreate(r)

(* the planner's task handlers for two users on one day, one request at a *)
(* time: one slot serves them all                                         *)
NextPlan ==
    \/ \E r \in {1} : \/ GetTodayTasks(r, FALSE) \/ CreateTask(r, FALSE)
                      \/ UpdateTaskFind(r, FALSE) \/ DeleteTaskFind(r, FALSE)
                      \/ GetStudyStreakFind(r, FALSE)
    \/ \E r \in {1} : PlanStep(r)
    \/ \E r \in {1} : Release(r)

(* one user's tasks and study streak over the days, one request at a time; *)
(* the handlers read and write the rows of the caller only                 *)
NextStudy ==
    \/ \E r \in {1} :
          /\ \/ CreateTask(r, FALSE) \/ UpdateTaskFind(r, FALSE)
             \/ DeleteTaskFind(r, FALSE) \/ GetStudyStreakFind(r, FALSE)
          /\ req'[r].user = 1
          /\ req'[r].pc = "taskUpdate" => req'[r].body.title = "undefined"
          /\ \A t \in studyPlanTasks' \ studyPlanTasks : t.date = day
    \/ \E r \in {1} : PlanStep(r)
    \/ \E r \in {1} : Release(r)
    \/ Tick

(* getWeeklyGoals requests arriving at any time *)
NextGoals ==
    \/ \E r \in Reqs : GoalsFind(r, TRUE) \/ GoalsCreate(r) \/ GoalsRefind(r)
    \/ Tick

----------------------------------------------------------------------------

Init ==
    /\ day = 1
    /\ clock = 0
    /\ req = [r \in Reqs |-> Idle]
    /\ mcqAttempts = {}
    /\ mcqResponses = {}
    /\ userActivity = [k \in UserIds \X ActivityTypes |-> 0]
    /\ userStreak = {}
    /\ activeDays = [u \in UserIds |-> {}]
    /\ mainsAttempts = {}
    /\ mainsEvals = {}
    /\ timers = {}
    /\ reported = [a \in AttemptIds |-> [last |-> "none", best |-> "none"]]
    /\ resubmitted = [a \in AttemptIds |-> FALSE]
    /\ lost = {}
    /\ mockTests = {}
    /\ mockAttempts = {}
    /\ users = {UserRow(u, u) : u \in UserIds}
    /\ provider = UserIds
    /\ tokens = {}
    /\ handled = {}
    /\ session = 0
    /\ studyPlanTasks = {}
    /\ studyStreak = {}
    /\ weeklyGoals = {}
    /\ studyDays = [u \in UserIds |-> {}]

McqStep(r, faults) ==
    \/ McqCheck(r)
    \/ McqUpsert(r, faults)
    \/ McqResponse(r, faults)
    \/ McqActivity(r, faults)
    \/ StreakRead(r)
    \/ StreakWrite(r, faults)

(* requests of the daily MCQ arriving at any time, their store calls interleaving *)
Next ==
    \/ \E r \in Reqs : McqFind(r, TRUE) \/ McqStep(r, FALSE)
    \/ Tick

Spec == Init /\ [][Next]_vars

(* the daily MCQ served one request at a time, with the streak page *)
NextSeq ==
    \/ \E r \in Reqs : McqFind(r, FALSE) \/ McqStep(r, FALSE)
    \/ GetStreak
    \/ Tick

SpecSeq == Init /\ [][NextSeq]_vars

(* the three submission handlers served one request at a time *)
NextDaily ==
    \/ \E r \in Reqs : McqFind(r, FALSE) \/ McqStep(r, FALSE)
    \/ \E r \in Reqs : SubmitTextFind(r, FALSE) \/ UploadFind(r, FALSE) \/ MainsStep(r)
    \/ \E t \in timers : FireTimer(t)
    \/ Tick

SpecDaily == Init /\ [][NextDaily]_vars

(* daily answer writing: submissions, the evaluation callbacks, the status page *)
NextMains ==
    \/ \E r \in Reqs : SubmitTextFind(r, FALSE) \/ UploadFind(r, FALSE) \/ MainsStep(r)
    \/ \E t \in timers : FireTimer(t)
    \/ GetEvaluationStatus
    \/ Restart
    \/ Tick

SpecMains == Init /\ [][NextMains]_vars

SpecTest == Init /\ [][NextTest]_vars

SpecAuth == Init /\ [][NextAuth]_vars

SpecApp == Init /\ [][NextApp]_vars

(* the daily MCQ with its read handlers, the mock tests with theirs: the  *)
(* two share no table that a handler of the other reads, so a behaviour   *)
(* serves requests of one of them                                         *)
NextReview ==
    \/ /\ mockTests = {}
       /\ \E r \in Reqs : \/ McqFind(r, FALSE) \/ McqStep(r, FALSE)
                          \/ GetTodayQuestions(r) \/ GetTodayReview(r)
    \/ /\ \A r \in Reqs : req[r].kind \in {"none", "getTestQuestions", "getTestResults"}
       /\ \/ \E r \in Reqs : GetTestQuestions(r) \/ GetTestResults(r)
          \/ GenerateTestOf({1}, {"History"})
          \/ SubmitTest
          \/ SaveProgress
    \/ Tick

SpecReview == Init /\ [][NextReview]_vars

(* sessions are opened by login or through OAuth, then logout and requests *)
(* that present a token                                                    *)
NextLogout ==
    \/ /\ \A q \in Reqs : req[q].kind # "logout"
       /\ \/ OAuthSignIn
          \/ \E r \in Reqs : LoginSignIn(r, TRUE)
    \/ \E r \in Reqs : LoginFind(r) \/ LoginCreate(r)
    \/ \E r \in Reqs : Logout(r)
    \/ \E r \in Reqs : AuthHeader(r, TRUE) \/ AuthGetUser(r) \/ AuthFindUser(r) \/ Handler(r)
    \/ \E r \in Reqs : GetMeHeader(r, TRUE) \/ GetMeGetUser(r) \/ GetMeFindUser(r)
    \/ TokenExpires

SpecLogout == Init /\ [][NextLogout]_vars

(* a route behind optionalAuth, with tokens issued and expiring *)
NextOptional ==
    \/ \E r \in Reqs : OptHeader(r, TRUE) \/ OptGetUser(r) \/ OptFindUser(r) \/ OptHandler(r)
    \/ OAuthSignIn
    \/ TokenExpires
    \/ Tick

SpecOptional == Init /\ [][NextOptional]_vars

(* the daily MCQ served one request at a time, any store write may fail *)
NextFaults ==
    \/ \E r \in Reqs : McqFind(r, FALSE) \/ McqStep(r, TRUE)
    \/ Tick

SpecFaults == Init /\ [][NextFaults]_vars

(* the two graders, submitMCQ and submitTest, each in behaviours of its own *)
NextGrade ==
    \/ /\ mockTests = {}
       /\ \E r \in Reqs : McqFind(r, FALSE) \/ McqStep(r, FALSE)
    \/ /\ \A r \in Reqs : req[r].kind = "none"
       /\ GenerateTest \/ SubmitTest
    \/ Tick

SpecGrade == Init /\ [][NextGrade]_vars

(* calls of getStreak and updateStreak one after the other, over the days *)
NextStreak ==
    \/ \E u \in UserIds : UpdateStreak(u)
    \/ GetStreak
    \/ Tick

SpecStreak == Init /\ [][NextStreak]_vars

SpecPlan == Init /\ [][NextPlan]_vars

SpecStudy == Init /\ [][NextStudy]_vars

SpecGoals == Init /\ [][NextGoals]_vars

(* daily answer writing without the status page *)
NextEval ==
    \/ \E r \in Reqs : SubmitTextFind(r, FALSE) \/ UploadFind(r, FALSE) \/ MainsStep(r)
    \/ \E t \in timers : FireTimer(t)
    \/ Restart
    \/ Tick

(* the timer queue of the running process runs every callback that is due *)
LiveMains == Init /\ [][NextEval]_vars /\ WF_vars(\E t \in timers : FireTimer(t))

----------------------------------------------------------------------------
(* Properties of the daily MCQ *)

CompletedAttempt(u, m) ==
    \E a \in mcqAttempts : a.userId = u /\ a.dailyMcqId = m /\ a.completedAt # 0

SubmitsOf(u, m) ==
    {r \in Reqs : req[r].kind = "submitMCQ" /\ req[r].pc = "done"
                  /\ req[r].user = u /\ req[r].item = m}

(* C1: a submitMCQ request that finds a completed attempt of its user for    *)
(* today's MCQ is answered 400, and that step leaves the attempt, the        *)
(* responses, the streak and the activity log as they were.                  *)
C1_RejectsResubmission ==
    [][\A r \in Reqs :
         (req[r].pc = "check" /\ req'[r] # req[r]
            /\ CompletedAttempt(req[r].user, req[r].item))
         => /\ req'[r].pc = "done"
            /\ req'[r].resp = 400
            /\ UNCHANGED <<mcqAttempts, mcqResponses, userStreak, userActivity>>]_vars

C1_Witness ==
    \E r \in Reqs : /\ req[r].kind = "submitMCQ" /\ req[r].pc = "done" /\ req[r].resp = 400
                    /\ CompletedAttempt(req[r].user, req[r].item)

(* C2: of two submitMCQ requests of one user for one daily MCQ at most one   *)
(* is answered with success, and then the other is answered 400.             *)
C2_AtMostOneSuccess ==
    \A r1, r2 \in Reqs :
        (r1 # r2 /\ req[r1].item # 0 /\ r1 \in SubmitsOf(req[r1].user, req[r1].item)
                 /\ r2 \in SubmitsOf(req[r1].user, req[r1].item)
                 /\ req[r1].resp = 200)
        => req[r2].resp = 400

(* the run of consecutive days of S that ends at its last day *)
RunLength(S) ==
    IF S = {} THEN 0
    ELSE LET last == CHOOSE d \in S : \A e \in S : e <= d
         IN  Cardinality({d \in S : \A e \in d..last : e \in S})

C3_RunInvariant ==
    \A u \in UserIds :
        LET s == FindStreak(u)
        IN  IF s.id = 0 THEN activeDays[u] = {}
            ELSE /\ s.currentStreak = RunLength(activeDays[u])
                 /\ IF activeDays[u] = {} THEN s.lastActiveDate = 0
                    ELSE s.lastActiveDate \in activeDays[u]
                         /\ \A d \in activeDays[u] : d <= s.lastActiveDate

C3_StepRule ==
    \A r \in Reqs :
        LET old == FindStreak(req[r].user)
            new == CHOOSE s \in userStreak' : s.userId = req[r].user
        IN  /\ (req[r].pc = "streakRead" /\ req'[r] # req[r] /\ old.id # 0
                 /\ old.lastActiveDate = day)
               => userStreak' = userStreak /\ req'[r].resp = 200
            /\ (req[r].pc = "streakWrite" /\ req'[r] # req[r])
               => /\ new.lastActiveDate = req[r].today
                  /\ new.currentStreak =
                        IF old.id # 0 /\ old.lastActiveDate = new.lastActiveDate - 1
                        THEN old.currentStreak + 1 ELSE 1

(* C3: updateStreak on day D with stored lastActiveDate L makes currentStreak *)
(* old+1 when L = D-1, writes nothing when L = D, and makes it 1 otherwise;   *)
(* currentStreak is always the length of the run of consecutive active days   *)
(* that ends at the last active day.                                          *)
C3_ConsecutiveDayRule == []C3_RunInvariant /\ [][C3_StepRule]_vars

C3_Witness ==
    \E s \in userStreak : s.currentStreak = 2 /\ activeDays[s.userId] = {1, 2}

(* C5 as claimed: with equal correctCount, more wrong answers give a lower score *)
C5_WrongLowersScore ==
    \A a, b \in mcqAttempts :
        (a.correctCount = b.correctCount /\ a.wrongCount > b.wrongCount) => a.score < b.score

(* C5: the score stored by submitMCQ is correctCount * totalMarks /           *)
(* questionCount rounded to one decimal; wrong answers carry no penalty, so   *)
(* attempts with equal correctCount have equal scores whatever their          *)
(* wrongCount.                                                                *)
C5_ScoreIgnoresWrong ==
    /\ \A a \in mcqAttempts :
          LET m == DailyMcq(a.dailyMcqId)
              err == 2 * m.questionCount * a.score - 20 * a.correctCount * m.totalMarks
          IN  -m.questionCount < err /\ err <= m.questionCount
    /\ \A a, b \in mcqAttempts : a.correctCount = b.correctCount => a.score = b.score

C5_Witness ==
    \E a, b \in mcqAttempts :
        a.correctCount = 1 /\ b.correctCount = 1 /\ a.wrongCount = 1 /\ b.wrongCount = 0

----------------------------------------------------------------------------
(* Properties of daily answer writing *)

UniqueAttempts ==
    /\ \A a, b \in mcqAttempts :
          (a.userId = b.userId /\ a.dailyMcqId = b.dailyMcqId) => a = b
    /\ \A a, b \in mainsAttempts :
          (a.userId = b.userId /\ a.questionId = b.questionId) => a = b
    /\ \A e, f \in mainsEvals : e.attemptId = f.attemptId => e = f

(* the attempt a request at the mainsUpsert step finds, and the one it leaves *)
AttemptBefore(r) == FindMainsAttempt(req[r].user, req[r].item)
AttemptAfter(r) ==
    CHOOSE a \in mainsAttempts' : a.userId = req[r].user /\ a.questionId = req[r].item

Resubmits(r) == req[r].pc = "mainsUpsert" /\ req'[r] # req[r] /\ AttemptBefore(r).id # 0

(* C6 as claimed: every resubmission keeps the attempt id and replaces answer *)
(* text, word count and submittedAt by those of the new submission           *)
C6_ResubmitReplacesAnswer ==
    []UniqueAttempts /\
    [][\A r \in Reqs :
         Resubmits(r)
         => /\ AttemptAfter(r).id = AttemptBefore(r).id
            /\ AttemptAfter(r).submittedAt > AttemptBefore(r).submittedAt
            /\ AttemptAfter(r).answerText =
                  (IF req[r].kind = "submitText" THEN req[r].text ELSE <<"null">>)
            /\ AttemptAfter(r).wordCount =
                  (IF req[r].kind = "submitText" THEN WordCount(req[r].text) ELSE 0)]_vars

C6_ResubmitRule ==
    \A r \in Reqs :
        Resubmits(r)
        => /\ Cardinality(mainsAttempts') = Cardinality(mainsAttempts)
           /\ AttemptAfter(r).id = AttemptBefore(r).id
           /\ AttemptAfter(r).submittedAt > AttemptBefore(r).submittedAt
           /\ IF req[r].kind = "submitText"
              THEN /\ AttemptAfter(r).answerText = req[r].text
                   /\ AttemptAfter(r).wordCount = WordCount(req[r].text)
                   /\ AttemptAfter(r).fileUrl = AttemptBefore(r).fileUrl
              ELSE /\ AttemptAfter(r).fileUrl = req[r].text
                   /\ AttemptAfter(r).answerText = AttemptBefore(r).answerText
                   /\ AttemptAfter(r).wordCount = AttemptBefore(r).wordCount

(* C6: at most one MCQAttempt per (user, daily MCQ), one MainsAttempt per     *)
(* (user, question) and one MainsEvaluation per attempt; a resubmission keeps *)
(* the attempt id and replaces submittedAt; a text resubmission replaces      *)
(* answer text and word count, an upload resubmission replaces the file URL   *)
(* and leaves answer text and word count as they were.                        *)
C6_OneAttemptPerItem == []UniqueAttempts /\ [][C6_ResubmitRule]_vars

C6_Witness ==
    \E a \in mainsAttempts :
        /\ a.answerText = <<"a", " ", "b">> /\ a.wordCount = 2 /\ a.fileUrl = "url"
        /\ a.submittedAt = 2
        /\ \E r \in Reqs : req[r].kind = "upload" /\ req[r].pc = "done" /\ req[r].resp = 200

(* C7 as claimed: the reported status of an attempt never moves backwards *)
C7_NeverBackwards ==
    \A a \in AttemptIds : reported[a].last = reported[a].best

C7_ReportRule ==
    \A a \in AttemptIds :
        reported'[a] # reported[a]
        => /\ reported'[a].last = "pending" <=> FindEvaluation(a).id = 0
           /\ Rank(reported'[a].last) < Rank(reported[a].last)
              => /\ reported[a].last = "completed"
                 /\ reported'[a].last = "evaluating"
                 /\ resubmitted[a]

(* C7: getEvaluationStatus reports 'pending' exactly while the attempt has no *)
(* evaluation row, and the reported status moves forward along pending ->     *)
(* evaluating -> completed, except that after a resubmission of the attempt a *)
(* status reported 'completed' is reported 'evaluating' again; it never goes  *)
(* back to 'pending'.                                                         *)
C7_ForwardUntilResubmitted == [][C7_ReportRule]_vars

C7_Witness ==
    \E a \in AttemptIds : reported[a].best = "completed" /\ reported[a].last = "evaluating"

Succeeded(u, q) ==
    \E r \in Reqs : /\ req[r].kind \in {"submitText", "upload"} /\ req[r].pc = "done"
                    /\ req[r].resp = 200 /\ req[r].user = u /\ req[r].item = q

EvaluationOf(u, q) == FindEvaluation(FindMainsAttempt(u, q).id)

CompletedOrLost(u, q) ==
    LET e == EvaluationOf(u, q)
    IN  e.id # 0 /\ (e.status = "completed" \/ e.id \in lost)

C8_OnlyCallbackCompletes ==
    \A e \in mainsEvals : \A f \in mainsEvals' :
        (f.id = e.id /\ e.status # "completed" /\ f.status = "completed")
        => \E t \in timers \ timers' : t.evaluationId = e.id

C8_NoRetry ==
    \A e \in mainsEvals : \A f \in mainsEvals' :
        (f.id = e.id /\ e.status = "evaluating" /\ \A t \in timers : t.evaluationId # e.id)
        => f.status = "evaluating"

(* C8: a mains submission answered with success is eventually 'completed'     *)
(* unless its callback's update failed or the process stopped before it ran;  *)
(* only a callback sets 'completed', and an evaluation that is 'evaluating'   *)
(* with no callback pending stays 'evaluating'.                               *)
C8_EventuallyCompleted ==
    /\ \A u \in UserIds : \A q \in Days : Succeeded(u, q) ~> CompletedOrLost(u, q)
    /\ [][C8_OnlyCallbackCompletes /\ C8_NoRetry]_vars

C8_Witness ==
    \E u \in UserIds, q \in Days :
        /\ Succeeded(u, q)
        /\ EvaluationOf(u, q).id # 0
        /\ EvaluationOf(u, q).status = "completed"
        /\ EvaluationOf(u, q).id \notin lost

(* the callback was scheduled by the submission the attempt row now holds *)
OfLatestSubmission(t) ==
    \E e \in mainsEvals, a \in mainsAttempts :
        e.id = t.evaluationId /\ a.id = e.attemptId /\ a.submittedAt = t.at

(* C16 as claimed: only the callback of the most recent submission of an   *)
(* attempt writes 'completed' and a score to its evaluation; the callback  *)
(* of a superseded submission never does.                                  *)
C16_CompletedByLatest ==
    [][\A t \in timers \ timers' :
          (\E f \in mainsEvals' \ mainsEvals : f.id = t.evaluationId /\ f.status = "completed")
          => OfLatestSubmission(t)]_vars

(* C17 as claimed: when submitMCQ answers 500 after the already-submitted *)
(* check, no completed attempt of that user for that MCQ is in the store, *)
(* so the user can submit again.                                          *)
C17_ErrorLeavesNoAttempt ==
    [][\A r \in Reqs :
          (req'[r].kind = "submitMCQ" /\ req'[r].resp = 500 /\ req[r].resp # 500)
          => \A a \in mcqAttempts' :
                (a.userId = req'[r].user /\ a.dailyMcqId = req'[r].item) => a.completedAt = 0]_vars

(* Sum of f over the set S *)
RECURSIVE SumOver(_, _)
SumOver(f, S) ==
    IF S = {} THEN 0
    ELSE LET x == CHOOSE y \in S : TRUE IN f[x] + SumOver(f, S \ {x})

C18_CountsSum ==
    /\ \A a \in mcqAttempts :
          a.correctCount + a.wrongCount + a.skippedCount = FindDailyMcq(a.dailyMcqId).questionCount
    /\ \A a \in mockAttempts : \A t \in mockTests :
          t.id = a.mockTestId =>
              a.correctCount + a.wrongCount + a.skippedCount = Len(t.questions)

C18_SubjectTotalsSum ==
    \A a \in mockAttempts : \A t \in mockTests :
        t.id = a.mockTestId =>
            SumOver([sb \in DOMAIN a.subjectWise |-> a.subjectWise[sb].total],
                    DOMAIN a.subjectWise) = Len(t.questions)

(* C18 as claimed: every stored attempt of submitMCQ and submitTest counts *)
(* each question of its test once: correctCount + wrongCount +            *)
(* skippedCount is the number of questions, and the totals of subjectWise *)
(* add up to the same number.                                             *)
C18_EachQuestionOnce == C18_CountsSum /\ C18_SubjectTotalsSum

C20_Bounds ==
    \A s \in userStreak : 0 <= s.currentStreak /\ s.currentStreak <= s.longestStreak

C20_Monotone ==
    \A s \in userStreak : \E t \in userStreak' :
        t.userId = s.userId /\ t.longestStreak >= s.longestStreak

(* C20: every UserStreak row has 0 <= currentStreak <= longestStreak, and *)
(* no call of getStreak or updateStreak lowers the longestStreak of a row *)
(* or removes a row.                                                      *)
C20_LongestBoundsCurrent == []C20_Bounds /\ [][C20_Monotone]_vars

C20_Witness ==
    /\ \E s \in userStreak : s.currentStreak = 1 /\ s.longestStreak = 2
    /\ \E s \in userStreak : s.currentStreak = 0 /\ s.longestStreak = 0

----------------------------------------------------------------------------
(* Properties of mock tests *)

(* C4: the score stored by submitTest is 2 * correct - 0.66 * wrong rounded   *)
(* to one decimal place and floored at 0, whatever was skipped.               *)
C4_CorrectMinusPenalty ==
    \A a \in mockAttempts :
        LET hundredths == 200 * a.correctCount - 66 * a.wrongCount
        IN  IF hundredths + 5 < 10
            THEN a.score = 0
            ELSE hundredths - 5 < 10 * a.score /\ 10 * a.score <= hundredths + 5

C4_Witness ==
    /\ \E a \in mockAttempts : a.correctCount = 1 /\ a.wrongCount = 1 /\ a.score = 13
    /\ \E a \in mockAttempts : a.correctCount = 0 /\ a.wrongCount = 1 /\ a.score = 0
                                /\ a.skippedCount = 1

(* C19 as claimed: every attempt stored by submitTest has a score between *)
(* 0 and the totalMarks of its test and an accuracy between 0 and 100,    *)
(* which is 0 when no question was answered (score and accuracy in        *)
(* tenths).                                                               *)
C19_ScoreWithinMarks ==
    \A a \in mockAttempts :
        /\ 0 <= a.score /\ a.score <= 10 * a.totalMarks
        /\ 0 <= a.accuracy /\ a.accuracy <= 1000
        /\ a.correctCount + a.wrongCount = 0 => a.accuracy = 0

----------------------------------------------------------------------------
(* Properties of the accounts API and of authenticate *)

(* the rows of every table *)
Stored == <<mcqAttempts, mcqResponses, userActivity, userStreak, mainsAttempts, mainsEvals,
            mockTests, mockAttempts, users>>

HasUserRow(account, id) == \E u \in users : u.supabaseId = account /\ u.id = id

C9_Refused ==
    /\ \A r \in handled :
          /\ req[r].kind = "protected" /\ req[r].header = "Bearer"
          /\ req[r].pc = "done" /\ req[r].resp = 200
          /\ HasUserRow(req[r].item, req[r].user)
    /\ \A r \in Reqs : req[r].kind = "protected" =>
          /\ req[r].header # "Bearer" => req[r].pc = "done" /\ req[r].resp = 401
          /\ req[r].pc = "done" /\ r \notin handled => req[r].resp \in {401, 500}

C9_GateRule ==
    \A r \in Reqs :
        LET before == req[r]
            after == req'[r]
        IN  after.kind = "protected" /\ before.pc # after.pc =>
              /\ after.pc = "getUser" => before.pc = "idle" /\ after.header = "Bearer"
              /\ after.pc = "findUser" => before.pc = "getUser" /\ before.item \in tokens
              /\ after.pc = "handler" =>
                    before.pc = "findUser" /\ HasUserRow(before.item, after.user)
              /\ r \in handled' <=> before.pc = "handler"
              /\ before.pc # "handler" => UNCHANGED Stored
              /\ after.pc = "done" /\ before.pc = "getUser" /\ before.item \in tokens =>
                    after.resp = 500
              /\ after.pc = "done" /\ before.pc = "findUser"
                    /\ HasUserRow(before.item, FindUserBySupabaseId(before.item).id) =>
                    after.resp = 500

(* C9: a handler behind authenticate runs only for a request with a bearer *)
(* header, a token the provider verifies and a User row for the verified   *)
(* account; every other request is answered 401, or 500 when a call of the *)
(* middleware throws, without the handler running or any row changing.     *)
C9_OnlyAuthenticated == []C9_Refused /\ [][C9_GateRule]_vars

C9_Witness ==
    /\ handled # {}
    /\ \E r \in Reqs : /\ req[r].kind = "protected" /\ req[r].header = "Bearer"
                       /\ req[r].resp = 401 /\ req[r].user # 0

Success(r) ==
    /\ req[r].kind \in {"signup", "login", "authCallback"}
    /\ req[r].pc = "done" /\ req[r].resp \in {200, 201}

C10_OneRow ==
    \A r \in Reqs : Success(r) =>
        Cardinality({u \in users : u.supabaseId = req[r].user}) = 1

C10_AcceptRule ==
    \A r \in Reqs :
        /\ req[r].kind = "protected" /\ req[r].pc \in {"getUser", "findUser"}
        /\ req'[r].pc = "done" /\ req'[r].resp = 401
        /\ \E q \in Reqs : Success(q) /\ req[q].user = req[r].item
        => req[r].pc = "getUser" /\ req[r].item \notin tokens

----------------------------------------------------------------------------
(* Properties of the error responses *)

(* C11: every error response has a body with a status and a message field;  *)
(* an error given to next() is answered with its statusCode, 500 without    *)
(* one, and with status "error" unless it carries one; an unmatched route   *)
(* is answered 404; validation and missing-resource errors are answered     *)
(* 4xx with status "error".                                                 *)
C11_ErrorEnvelope ==
    \A r \in Reqs : (req[r].kind = "app" /\ req[r].pc = "done" /\ req[r].resp >= 400) =>
        /\ {"status", "message"} \subseteq DOMAIN req[r].body
        /\ req[r].cause = "next" =>
              /\ req[r].resp = (IF req[r].err.statusCode = 0 THEN 500
                                ELSE req[r].err.statusCode)
              /\ req[r].err.status \in {"undefined", ""} => req[r].body.status = "error"
              /\ req[r].body.message = req[r].err.message
        /\ req[r].cause = "unmatched" => req[r].resp = 404 /\ req[r].body.status = "error"
        /\ req[r].cause \in {"validation", "missing"} =>
              req[r].resp \in 400..499 /\ req[r].body.status = "error"

C11_Witness ==
    /\ \E r \in Reqs : /\ req[r].pc = "done" /\ req[r].kind = "app" /\ req[r].cause = "next"
                       /\ req[r].err.statusCode = 0 /\ req[r].resp = 500
                       /\ req[r].body.status = "error"
    /\ \E r \in Reqs : req[r].pc = "done" /\ req[r].kind = "app" /\ req[r].cause = "unmatched"

----------------------------------------------------------------------------
(* Properties of signup *)

(* two addresses that differ at most in case *)
SameAddress(e1, e2) == e1.name = e2.name

C12_UniqueUsers ==
    \A u1, u2 \in users :
        (u1.email = u2.email \/ u1.supabaseId = u2.supabaseId \/ u1.id = u2.id) => u1 = u2

C12_ConflictRule ==
    \A r \in Reqs :
        (/\ req[r].pc = "idle" /\ req'[r].kind = "signup"
         /\ req'[r].resp # 400
         /\ \E u \in users : SameAddress(u.email, req'[r].email))
        => /\ req'[r].pc = "done" /\ req'[r].resp = 409
           /\ UNCHANGED <<users, provider, tokens>>

C12_ProviderRule ==
    \A r \in Reqs :
        (req[r].kind = "signup" /\ req'[r] # req[r]
                                /\ (provider' # provider \/ users' # users))
        => req[r].resp # 409 /\ req[r].pc \in {"signUp", "create"}

----------------------------------------------------------------------------
(* Properties of the read handlers *)

AnswerFields == {"correctOption", "explanation"}

Reads == {"getTodayQuestions", "getTodayReview", "getTestQuestions", "getTestResults"}

HasMcqAttempt(u, m) == \E a \in mcqAttempts : a.userId = u /\ a.dailyMcqId = m

C13_Disclosed ==
    \A r \in Reqs : req[r].kind \in Reads =>
        /\ req[r].kind \in {"getTodayQuestions", "getTestQuestions"} =>
              req[r].fields \cap AnswerFields = {}
        /\ req[r].fields \cap AnswerFields # {} =>
              /\ req[r].resp = 200
              /\ req[r].kind = "getTodayReview" => HasMcqAttempt(req[r].user, req[r].item)
              /\ req[r].kind = "getTestResults" =>
                    CompletedTestAttempts(req[r].user, req[r].item) # {}

C13_RefuseRule ==
    \A r \in Reqs :
        /\ (/\ req[r].pc = "idle" /\ req'[r].kind = "getTodayReview"
            /\ ~HasMcqAttempt(req'[r].user, FindDailyMcq(day).id))
           => req'[r].resp = 404 /\ req'[r].fields = {}
        /\ (/\ req[r].pc = "idle" /\ req'[r].kind = "getTestResults"
            /\ CompletedTestAttempts(req'[r].user, req'[r].item) = {})
           => req'[r].resp = 404 /\ req'[r].fields = {}

(* C13: getTodayQuestions and getTestQuestions never show correctOption or  *)
(* explanation; getTodayReview answers 404 unless the user has an attempt   *)
(* for today's MCQ and getTestResults answers 404 unless the user has a     *)
(* completed attempt for the test, so both are shown only after a submit.   *)
C13_AnswersAfterSubmit == []C13_Disclosed /\ [][C13_RefuseRule]_vars

C13_Witness ==
    \E r, q \in Reqs :
        /\ req[r].kind = "getTodayReview" /\ req[r].resp = 200
        /\ req[r].fields \cap AnswerFields # {}
        /\ req[q].kind = "submitMCQ" /\ req[q].pc = "done" /\ req[q].resp = 200
        /\ req[q].user = req[r].user /\ req[q].item = req[r].item

----------------------------------------------------------------------------
(* Properties of logout *)

(* request r arrived after logout q had answered success for the bearer *)
(* token that r presents                                                *)
LoggedOut(q, r) ==
    /\ req[q].kind = "logout" /\ req[q].pc = "done" /\ req[q].resp = 200
    /\ req[q].header = "Bearer"
    /\ q < r
    /\ req[r].kind \in {"protected", "getMe"} /\ req[r].item = req[q].item

(* C14: after logout has answered success for bearer token T, authenticate *)
(* and getMe do not accept a later request that presents T.                *)
C14_LogoutInvalidates ==
    [][\A q, r \in Reqs :
         (LoggedOut(q, r) /\ req[r].pc = "getUser") => req'[r].pc # "findUser"]_vars

----------------------------------------------------------------------------
(* Properties of optionalAuth *)

C15_Passed ==
    \A r \in Reqs : req[r].kind = "optional" =>
        /\ req[r].nexts = (IF req[r].pc \in {"handler", "done"} THEN 1 ELSE 0)
        /\ req[r].pc # "done" => req[r].resp = 0
        /\ (req[r].pc \in {"handler", "done"} /\ req[r].user # 0) =>
              /\ req[r].header = "Bearer"
              /\ HasUserRow(req[r].item, req[r].user)

C15_PassRule ==
    \A r \in Reqs : (req'[r].kind = "optional" /\ req'[r].pc # req[r].pc) =>
        /\ req'[r].pc = "done" => req[r].pc = "handler"
        /\ req'[r].pc = "findUser" => req[r].item \in tokens
        /\ (req'[r].pc = "handler" /\ req'[r].user # 0) => req[r].pc = "findUser"
        /\ req[r].pc # "handler" => UNCHANGED Stored

(* C15: optionalAuth answers no request itself: whatever the header, the    *)
(* token, the provider and the users table do, it calls next() exactly once *)
(* and the handler runs; req.user is set only for a verified token whose    *)
(* account has a User row.                                                  *)
C15_NeverRejects == []C15_Passed /\ [][C15_PassRule]_vars

C15_Witness ==
    \E r, q \in Reqs :
        /\ req[r].kind = "optional" /\ req[r].pc = "done" /\ req[r].user # 0
        /\ req[q].kind = "optional" /\ req[q].pc = "done" /\ req[q].user = 0
        /\ req[q].header = "Bearer" /\ req[q].item \in tokens

----------------------------------------------------------------------------
(* Properties of the study planner *)

C21_Bounds ==
    \A s \in studyStreak :
        /\ 0 <= s.currentStreak /\ s.currentStreak <= s.longestStreak
        /\ s.longestStreak <= s.totalStudyDays
        /\ s.totalStudyDays = Cardinality(studyDays[s.userId])

C21_GrowRule ==
    \A s \in studyStreak : \A t \in studyStreak' :
        t.userId = s.userId =>
            /\ t.totalStudyDays <= s.totalStudyDays + 1
            /\ t.totalStudyDays > s.totalStudyDays => t.lastStudyDate \notin studyDays[s.userId]

(* C21: every StudyStreak row has currentStreak <= longestStreak <=        *)
(* totalStudyDays, and totalStudyDays is the number of distinct days on    *)
(* which updateStudyStreak ran for the user: it grows by 1 with the first  *)
(* completion of a day and not with the later ones.                        *)
C21_OneStudyDayPerDay == []C21_Bounds /\ [][C21_GrowRule]_vars

C21_Witness ==
    \E s \in studyStreak :
        /\ s.currentStreak = 1 /\ s.longestStreak = 2 /\ s.totalStudyDays = 3
        /\ \E t1, t2 \in studyPlanTasks :
              /\ t1.id # t2.id /\ t1.userId = s.userId /\ t2.userId = s.userId
              /\ t1.completedAt = s.lastStudyDate /\ t2.completedAt = s.lastStudyDate

DefaultTitles == {DefaultGoals[i].title : i \in DOMAIN DefaultGoals}

FourDefaults(goals) ==
    /\ Cardinality(goals) = Len(DefaultGoals)
    /\ {g.title : g \in goals} = DefaultTitles

(* C22 as claimed: whenever getWeeklyGoals has answered, exactly the four *)
(* default goals exist for that user and week and the response holds      *)
(* those four, also when the steps of several requests interleave.        *)
C22_FourDefaultGoals ==
    \A r \in Reqs :
        (req[r].kind = "getWeeklyGoals" /\ req[r].pc = "done")
        => /\ FourDefaults(req[r].data)
           /\ FourDefaults(GoalsOf(req[r].user, req[r].item))

(* the request that takes the step *)
Acts(r) == req'[r] # req[r]

OnTask(r) == req[r].kind \in {"updateTask", "deleteTask"}

C23_OwnTasksReturned ==
    \A r \in Reqs : (req[r].kind = "getTodayTasks" /\ req[r].pc = "done")
        => \A t \in req[r].data : t.userId = req[r].user

C23_NotFoundRule ==
    \A r \in Reqs :
        (Acts(r) /\ req[r].pc = "idle" /\ req'[r].kind \in {"updateTask", "deleteTask"}
           /\ ~ \E t \in studyPlanTasks : t.id = req'[r].item /\ t.userId = req'[r].user)
        => /\ req'[r].pc = "done" /\ req'[r].resp = 404
           /\ UNCHANGED planVars

C23_OwnerRule ==
    /\ \A t \in studyPlanTasks \ studyPlanTasks' :
          \E r \in Reqs : Acts(r) /\ OnTask(r) /\ req[r].resp # 404
                          /\ t.id = req[r].item /\ t.userId = req[r].user
    /\ \A s \in (studyStreak \ studyStreak') \cup (studyStreak' \ studyStreak) :
          \E r \in Reqs : Acts(r) /\ req[r].resp # 404 /\ s.userId = req[r].user

(* C23: updateTask and deleteTask answer 404 and write nothing when the    *)
(* task id does not exist or is another user's; a task row is changed or   *)
(* deleted, and a study streak written, only by a request of its owner     *)
(* that was not answered 404; getTodayTasks returns the caller's tasks     *)
(* only.                                                                   *)
C23_OwnTasksOnly == []C23_OwnTasksReturned /\ [][C23_NotFoundRule /\ C23_OwnerRule]_vars

C23_Witness ==
    \E r \in Reqs :
        /\ OnTask(r) /\ req[r].pc = "done" /\ req[r].resp = 404
        /\ \E t \in studyPlanTasks : t.id = req[r].item /\ t.userId # req[r].user
                                     /\ t.isCompleted

====
